---------------------------- MODULE Spec2Model ----------------------------
(***************************************************************************)
(* A model of the search-orchestration engine of the Multi-Source GTM      *)
(* search engine: utils.py (hash_key, SimpleCache, deduplicate_evidence,   *)
(* cached_search) and search_pipeline.py (synthesize_findings and the      *)
(* SearchPipeline class: safe_call, search_company, batch_search).         *)
(*                                                                         *)
(* Confidences are counted in hundredths (80 stands for 0.8), so that the  *)
(* mean and round(x, 2) of search_company are integer computations.        *)
(* Evidence contents are abstract strings; the keyword matching of         *)
(* synthesize_findings (ai_fraud_detection, technologies) reads only the   *)
(* text of the contents and is left out of the findings record.            *)
(*                                                                         *)
(* The asyncio scheduler is cooperative: a coroutine runs without          *)
(* interruption from one await that suspends to the next.  Each action     *)
(* below is one such uninterrupted stretch.                                *)
(***************************************************************************)
EXTENDS Integers, Sequences, FiniteSets, TLC

(***************************************************************************)
(* Bounds of the model.                                                    *)
(***************************************************************************)
MaxDomains == 2      \* longest list of domains handed to batch_search
MaxQueries == 2      \* longest list of queries handed to batch_search
MaxWork == 2         \* most (domain, query) pairs of one batch_search
NumSources == 1      \* how many of the registered sources are modelled
MaxParallel == 2     \* largest max_parallel handed to batch_search
MaxBatches == 2      \* batch_search calls made on the one pipeline
MaxRetries == 2      \* largest retries argument of a direct safe_call
MaxCalls == 2        \* direct safe_call / cached_search calls in a row
MaxLen == 3          \* longest evidence list handed to deduplicate_evidence
MaxRequests == 8     \* most safe_calls made before a get_metrics
MaxFailures == 3     \* most failed attempts counted before a get_metrics
MaxParsed == 2
MaxStrategies == 11
MaxStreamMisses == 1       \* most strategies parsed from one answer of the LLM

(***************************************************************************)
(* Program constants.                                                      *)
(***************************************************************************)
DEFAULT_RETRIES == 2     \* safe_call(..., retries=2)
BACKOFF_BASE == 200      \* asyncio.sleep(0.2 * ...), in milliseconds

Domains == {"a.com", "b.com"}
Queries == {"x"}
Contents == {"AI", "ai"}
Confidences == {80, 100}
Messages == {"boom"}        \* str(e) of an exception a source raises
HashVals == 1 .. 2          \* the values hash() takes on Contents

\* The sources search_company calls for one query, in the order in which
\* asyncio.gather is handed their calls (and so the order of their results).
SOURCES ==
    << "search_jobs", "search_news", "scrape_website", "fetch_html",
       "search_linkedin" >>

Min(a, b) == IF a < b THEN a ELSE b

Sources == 1 .. Min(NumSources, Len(SOURCES))

(***************************************************************************)
(* Evidence records.  A Python dict is a record; None is a record of its   *)
(* own so that it can be compared with the others.                         *)
(***************************************************************************)
None == [none |-> TRUE]

ErrorRecord(msg) == [error |-> msg]

SuccessRecord(src, d, q, c, conf) ==
    [source |-> src, domain |-> d, query |-> q, content |-> c,
     confidence |-> conf]

IsError(r) == "error" \in DOMAIN r

\* Python's truth value of a cache entry: None (and an empty dict) is false.
Truthy(r) == r # None

TIMEOUT_MSG == "timeout"

\* str(e) of the TypeError that "async with None" raises.
NO_SEMAPHORE_MSG == "NoneType"

VARIABLES
    strhash,          \* hash() of this process on the content strings
    CACHE,            \* utils.CACHE._cache: key -> record, None when absent
    failed_requests,  \* SearchPipeline.failed_requests
    total_requests,   \* SearchPipeline.total_requests
    cache_hits,       \* SearchPipeline.cache_hits
    semaphore,        \* SearchPipeline.semaphore: 0 is None, else an index of permits
    permits,          \* the asyncio.Semaphore objects made so far: their free permits
    batches,          \* the batch_search calls and stream_evidence generators: their frames
    calls,            \* the safe_call coroutines: their frames
    returned,         \* the direct safe_call that returned last: its frame
    prev,             \* the direct safe_call before that one: its key and result
    snap,             \* the counters when the last direct safe_call was made
    ncalls,           \* direct calls made so far
    pending,          \* cached_search coroutines between their lookup and their store
    evidence_list,    \* deduplicate_evidence: its argument
    deduped,          \* deduplicate_evidence: whether it ran, raised, and what it returned
    metrics,          \* what get_metrics returned last
    response,         \* research_batch: the request it served last and its response
    stream,           \* research_stream: the request being served and how far it is
    events            \* research_stream: the events event_stream has yielded

vars ==
    << strhash, CACHE, failed_requests, total_requests, cache_hits, semaphore,
       permits, batches, calls, returned, prev, snap, ncalls, pending,
       evidence_list, deduped, metrics, response, stream, events >>

(***************************************************************************)
(* utils.py                                                                *)
(***************************************************************************)

\* hash_key: the MD5 hex digest of "domain:query".  The digest is taken to be
\* one-to-one on the interpolated strings of the model.
hash_key(domain, query) == domain \o ":" \o query

Keys == {hash_key(d, q) : d \in Domains, q \in Queries}

\* SimpleCache.get: dict.get, None for a missing key.
CacheGet(key) == CACHE[key]

\* SimpleCache.set
CacheSet(cache, key, value) == [cache EXCEPT ![key] = value]

HasContent(item) == "content" \in DOMAIN item

\* item["content"] of line 29 raises KeyError for an item that has no such
\* key; the loop reaches every item, so one such item makes the call raise.
DedupRaises(list) == \E i \in 1 .. Len(list) : ~HasContent(list[i])

\* hash(item["content"]) of line 29.
ContentHash(item) == strhash[item.content]

\* The loop of deduplicate_evidence from item i on: seen holds the hashes of
\* the contents met so far, out the items kept so far.
RECURSIVE DedupFrom(_, _, _, _)
DedupFrom(list, i, seen, out) ==
    IF i > Len(list) THEN out
    ELSE LET content_hash == ContentHash(list[i])
         IN  IF content_hash \notin seen
             THEN DedupFrom(list, i + 1, seen \cup {content_hash},
                            Append(out, list[i]))
             ELSE DedupFrom(list, i + 1, seen, out)

\* A deduplicate_evidence that returns the records it keeps newest first.
DedupNewestFirst(list) ==
    LET out == DedupFrom(list, 1, {}, <<>>)
    IN  [k \in 1 .. Len(out) |-> out[Len(out) + 1 - k]]

\* What deduplicate_evidence returns when it does not raise.
deduplicate_evidence(list) == DedupFrom(list, 1, {}, <<>>)

(***************************************************************************)
(* search_pipeline.py: the aggregation of search_company                   *)
(***************************************************************************)

\* synthesize_findings, without the keyword matching over the text.
synthesize_findings(list) ==
    LET d == deduplicate_evidence(list)
    IN  [evidence |-> d, signals_found |-> Len(d)]

RECURSIVE SumConfidence(_)
SumConfidence(list) ==
    IF list = <<>> THEN 0
    ELSE Head(list).confidence + SumConfidence(Tail(list))

\* round(total / n, 2) in hundredths: the nearest hundredth, a tie going to
\* the even one (no mean of fewer than 8 of the model's confidences ties).
Round2(total, n) ==
    LET q == total \div n
        r == total % n
    IN  IF 2 * r < n THEN q
        ELSE IF 2 * r > n THEN q + 1
        ELSE IF q % 2 = 0 THEN q ELSE q + 1

\* clean_results = [r for r in results if "error" not in r]
CleanResults(results) == SelectSeq(results, LAMBDA r : ~IsError(r))

\* A search_company that gives no confidence once the pipeline has counted
\* a failure of any call.
ConfidenceScoreUnlessFailed(clean) ==
    IF clean = <<>> \/ failed_requests > 0 THEN 0
    ELSE Round2(SumConfidence(clean), Len(clean))

\* A search_company that forgets the division of line 131.
ConfidenceSum(clean) == SumConfidence(clean)

\* confidence = sum / len if clean_results else 0, then round(confidence, 2)
ConfidenceScore(clean) ==
    IF clean = <<>> THEN 0 ELSE Round2(SumConfidence(clean), Len(clean))

\* A search_company that counts the records before the error filter.
CompanyResultCountingAll(domain, results) ==
    LET clean == CleanResults(results)
    IN  [domain |-> domain,
         confidence_score |-> ConfidenceScore(clean),
         evidence_sources |-> Len(results),
         findings |-> synthesize_findings(clean)]

\* The dict search_company returns from the records its safe_calls returned.
CompanyResult(domain, results) ==
    LET clean == CleanResults(results)
    IN  [domain |-> domain,
         confidence_score |-> ConfidenceScore(clean),
         evidence_sources |-> Len(clean),
         findings |-> synthesize_findings(clean)]



(***************************************************************************)
(* search_pipeline.py: SearchPipeline.safe_call                            *)
(*                                                                         *)
(* A frame of calls is one safe_call coroutine that has not returned:      *)
(*   pc       "waiting"  at "async with self.semaphore", for a permit      *)
(*            "inflight" inside wait_for(func(domain, query), timeout=5)   *)
(*            "backoff"  inside asyncio.sleep(0.2 * 2 ** attempt)          *)
(*   func     the source it wraps; retries, attempt as in the code         *)
(*   sem      the semaphore object it waits for or holds a permit of       *)
(*   invoked  how many times it has invoked func                           *)
(*   failures how many failed attempts it has counted                      *)
(*   sleeps   the delays of the sleeps it has begun, in milliseconds        *)
(* When it returns, its frame is gone and its result is with its caller:   *)
(* the task of search_company that gathers it (tasks[i].got), or the       *)
(* direct caller (returned), who also sees how the call ended: "hit",      *)
(* "returned" (the source returned) or "exhausted" (the last attempt       *)
(* failed, for the given reason).                                          *)
(***************************************************************************)
Direct == <<0, 0, 0>>

directVars == << returned, prev, snap, ncalls >>
dedupVars == << evidence_list, deduped >>
mainVars == << response, stream, events >>
apiVars == << metrics, response, stream, events >>

\* Lines 88-89 and 92: the cache lookup finds a record.
CacheHit(domain, query) == Truthy(CacheGet(hash_key(domain, query)))

\* Lines 96-100 of a call that missed the cache, up to its first await: sem
\* is self.semaphore as line 100 reads it.
Prologue(func, domain, query, retries, sem) ==
    [func |-> func, domain |-> domain, query |-> query, retries |-> retries,
     attempt |-> 0, sem |-> sem, invoked |-> 0, failures |-> 0,
     sleeps |-> <<>>, pc |-> "waiting"]

\* What the caller of a returned safe_call holds of it.
ReturnFrame(frame, rec, how, why) ==
    [func |-> frame.func, domain |-> frame.domain, query |-> frame.query,
     retries |-> frame.retries, sem |-> frame.sem, invoked |-> frame.invoked,
     failures |-> frame.failures, sleeps |-> frame.sleeps, result |-> rec,
     ended |-> how, reason |-> why]

Without(c) == [d \in (DOMAIN calls) \ {c} |-> calls[d]]

\* The frame of a stream_evidence generator, among the frames of batches.
IsEvidenceStream(awaiting) == "yielded" \in DOMAIN awaiting

\* A stream_evidence whose loop ends with the first error item.
DeliverUntilError(awaiting, c, rec, how) ==
    IF IsEvidenceStream(awaiting)
    THEN IF \E k \in 1 .. Len(awaiting.yielded) :
                IsError(awaiting.yielded[k].item)
         THEN awaiting
         ELSE [awaiting EXCEPT
                  !.yielded = Append(@, [pair |-> c[2], source |-> c[3],
                                         item |-> rec, ended |-> how])]
    ELSE [awaiting EXCEPT !.tasks[c[2]].got[c[3]] = rec]

\* The coroutine c hands rec to the frame that awaits it: the gather of a
\* search_company keeps it at the place of the call (line 126);
\* asyncio.as_completed puts it at the end of the queue of the finished,
\* from which the generator yields (lines 168-171).
Deliver(awaiting, c, rec, how) ==
    IF IsEvidenceStream(awaiting)
    THEN [awaiting EXCEPT
             !.yielded = Append(@, [pair |-> c[2], source |-> c[3],
                                    item |-> rec, ended |-> how])]
    ELSE [awaiting EXCEPT !.tasks[c[2]].got[c[3]] = rec]

\* A safe_call that shares its outcome: when it returns, every call in
\* progress for the same source, domain and query returns the same record.
ReturnToAllOfKey(c, frame, rec, how, why) ==
    LET same == {d \in DOMAIN calls :
                    /\ calls[d].func = frame.func
                    /\ calls[d].domain = frame.domain
                    /\ calls[d].query = frame.query}
    IN  /\ calls' = [d \in (DOMAIN calls) \ same |-> calls[d]]
        /\ IF c = Direct
           THEN /\ returned' = ReturnFrame(frame, rec, how, why)
                /\ UNCHANGED batches
           ELSE /\ batches' =
                      [batches EXCEPT
                         ![c[1]].tasks =
                             [i \in 1 .. Len(@) |->
                                 IF <<c[1], i, c[3]>> \in same
                                 THEN [@[i] EXCEPT !.got[c[3]] = rec]
                                 ELSE @[i]]]
                /\ UNCHANGED returned

\* safe_call c returns rec to whoever awaits it.
Return(c, frame, rec, how, why) ==
    /\ calls' = Without(c)
    /\ IF c = Direct
       THEN /\ returned' = ReturnFrame(frame, rec, how, why)
            /\ UNCHANGED batches
       ELSE /\ batches' = [batches EXCEPT ![c[1]] = Deliver(@, c, rec, how)]
            /\ UNCHANGED returned

\* A semaphore that lets one caller too many in.
MayAcquireOneMore(c) == permits[calls[c].sem] >= 0

\* __aenter__ of the semaphore may return: a permit is free.
MayAcquire(c) == permits[calls[c].sem] > 0

\* A safe_call that invokes the source as soon as a permit is free, without
\* taking it.
AcquireWithoutPermit(c) ==
    /\ calls[c].pc = "waiting"
    /\ calls[c].sem # 0
    /\ MayAcquire(c)
    /\ calls' = [calls EXCEPT ![c].pc = "inflight", ![c].invoked = @ + 1]
    /\ UNCHANGED << strhash, CACHE, failed_requests, total_requests,
                    cache_hits, semaphore, permits, batches, returned, prev,
                    snap, ncalls, pending, dedupVars, apiVars >>

\* Line 100: a waiting call takes a permit and invokes the source.
Acquire(c) ==
    /\ calls[c].pc = "waiting"
    /\ calls[c].sem # 0
    /\ MayAcquire(c)
    /\ permits' = [permits EXCEPT ![calls[c].sem] = @ - 1]
    /\ calls' = [calls EXCEPT ![c].pc = "inflight", ![c].invoked = @ + 1]
    /\ UNCHANGED << strhash, CACHE, failed_requests, total_requests,
                    cache_hits, semaphore, batches, returned, prev, snap,
                    ncalls, pending, dedupVars, apiVars >>

\* A safe_call that gives its permit back only when its last attempt ends.
ReleaseOnLastAttempt(c) ==
    IF calls[c].attempt = calls[c].retries
    THEN [permits EXCEPT ![calls[c].sem] = @ + 1]
    ELSE permits

\* __aexit__ of the semaphore: the permit goes back.
Release(c) == [permits EXCEPT ![calls[c].sem] = @ + 1]

\* A loop that gives up one attempt early.
IsLastAttemptEarly(c) == calls[c].attempt + 1 >= calls[c].retries

\* Lines 105 and 110: attempt == retries.
IsLastAttempt(c) == calls[c].attempt = calls[c].retries

\* A safe_call that counts a failure only when it gives up.
CountFailureOnGivingUp(c) ==
    IF calls[c].attempt = calls[c].retries THEN failed_requests + 1
    ELSE failed_requests

\* Lines 104 and 109: self.failed_requests += 1, on every failed attempt.
CountFailure(c) == failed_requests + 1

\* The error record of lines 106 and 111.
FailureRecord(msg) == ErrorRecord(msg)

\* A safe_call whose attempts count from 1 in the delay.
BackoffDelayFromOne(c) == BACKOFF_BASE * 2 ^ (calls[c].attempt + 1)

\* Line 113: 0.2 * (2 ** attempt) seconds.
BackoffDelay(c) == BACKOFF_BASE * 2 ^ calls[c].attempt

\* Lines 102-113: a failed attempt is counted; the last one returns an error
\* record, any other goes to sleep before the next attempt.
Fail(c, msg) ==
    /\ failed_requests' = CountFailure(c)
    /\ IF IsLastAttempt(c)
       THEN Return(c, [calls[c] EXCEPT !.failures = @ + 1],
                   FailureRecord(msg), "exhausted", msg)
       ELSE /\ calls' = [calls EXCEPT ![c].pc = "backoff",
                                      ![c].failures = @ + 1,
                                      ![c].sleeps = Append(@, BackoffDelay(c))]
            /\ UNCHANGED << batches, returned >>

\* Line 101: the source returns a record (a success or an error record) in
\* time, and safe_call returns it as it is.
SourceReturns(c, rec) ==
    /\ calls[c].pc = "inflight"
    /\ permits' = Release(c)
    /\ Return(c, calls[c], rec, "returned", "")
    /\ UNCHANGED << strhash, CACHE, failed_requests, total_requests,
                    cache_hits, semaphore, prev, snap, ncalls, pending,
                    dedupVars, apiVars >>

\* Lines 107-111: the source raises.
SourceRaises(c, msg) ==
    /\ calls[c].pc = "inflight"
    /\ permits' = Release(c)
    /\ Fail(c, msg)
    /\ UNCHANGED << strhash, CACHE, total_requests, cache_hits, semaphore,
                    prev, snap, ncalls, pending, dedupVars, apiVars >>

\* Lines 102-106: wait_for gives up after 5 s and raises TimeoutError.
SourceTimesOut(c) ==
    /\ calls[c].pc = "inflight"
    /\ permits' = Release(c)
    /\ Fail(c, TIMEOUT_MSG)
    /\ UNCHANGED << strhash, CACHE, total_requests, cache_hits, semaphore,
                    prev, snap, ncalls, pending, dedupVars, apiVars >>

\* Line 100 with self.semaphore still None: "async with None" raises a
\* TypeError, which line 107 catches like a failure of the source.
EnterFails(c) ==
    /\ calls[c].pc = "waiting"
    /\ calls[c].sem = 0
    /\ Fail(c, NO_SEMAPHORE_MSG)
    /\ UNCHANGED << strhash, CACHE, total_requests, cache_hits, semaphore,
                    permits, prev, snap, ncalls, pending, dedupVars, apiVars >>

\* Line 113 returns: the next attempt begins and reads self.semaphore anew.
BackoffDone(c) ==
    /\ calls[c].pc = "backoff"
    /\ calls' = [calls EXCEPT ![c].pc = "waiting", ![c].attempt = @ + 1,
                              ![c].sem = semaphore]
    /\ UNCHANGED << strhash, CACHE, failed_requests, total_requests,
                    cache_hits, semaphore, permits, batches, returned, prev,
                    snap, ncalls, pending, dedupVars, apiVars >>

\* The records a source may return for (domain, query).
SourceRecords(func, domain, query) ==
    {SuccessRecord(SOURCES[func], domain, query, c, conf) :
        c \in Contents, conf \in Confidences}
    \cup {ErrorRecord(m) : m \in Messages}

(***************************************************************************)
(* search_pipeline.py: search_company and batch_search                     *)
(*                                                                         *)
(* A frame of batches is one batch_search call: its arguments, its state   *)
(* ("running" or "returned"), the search_company task of each domain,      *)
(* the order in which the tasks finished, and the list it returned.  A     *)
(* task holds its domain, the index qi of the query whose calls it awaits, *)
(* what those calls have returned so far (got, None for a call still       *)
(* running), its results list and, once it has returned, its dict (out).   *)
(* The safe_call of task i of batch b for source s is calls[<<b, i, s>>].  *)
(***************************************************************************)

\* Two functions, the second one winning where both are defined.
Merge(f, g) ==
    [x \in (DOMAIN f) \cup (DOMAIN g) |-> IF x \in DOMAIN g THEN g[x] ELSE f[x]]

\* A search_company whose safe_calls go on to the source although the cache
\* has answered.
LaunchWithoutLookup(b, i, domain, query, sem) ==
    [c \in {<<b, i, s>> : s \in Sources} |->
        Prologue(c[3], domain, query, DEFAULT_RETRIES, sem)]

\* Lines 119-126: the safe_calls of one query of task i, each run to its
\* first await; a call that hits the cache has returned by then.
Launch(b, i, domain, query, sem) ==
    IF CacheHit(domain, query) THEN <<>>
    ELSE [c \in {<<b, i, s>> : s \in Sources} |->
             Prologue(c[3], domain, query, DEFAULT_RETRIES, sem)]

\* What the gather of line 126 holds right after the launch.
GotAtLaunch(domain, query) ==
    [s \in Sources |->
        IF CacheHit(domain, query) THEN CacheGet(hash_key(domain, query))
        ELSE None]

\* Calls that count a request only after the lookup has missed.
CountRequestsOnMiss(domain, query) ==
    IF CacheHit(domain, query) THEN 0 ELSE Cardinality(Sources)

\* Line 90: self.total_requests += 1, in each of the calls of one query.
CountRequests(domain, query) == Cardinality(Sources)

\* Line 93: self.cache_hits += 1, in each of the calls of one query.
CountHits(domain, query) ==
    IF CacheHit(domain, query) THEN Cardinality(Sources) ELSE 0

RECURSIVE SumOver(_, _)
SumOver(f, S) ==
    IF S = {} THEN 0
    ELSE LET x == CHOOSE y \in S : TRUE IN f[x] + SumOver(f, S \ {x})

\* A gather that hands the results over in the order the tasks finished (what
\* asyncio.as_completed would give).
GatherAsCompleted(tasks, finished) ==
    [k \in 1 .. Len(finished) |-> tasks[finished[k]].out]

\* Line 145: what asyncio.gather returns for the tasks of a batch: the result
\* of task i at index i, in whatever order the tasks finished.
GatherTasks(tasks, finished) == [i \in 1 .. Len(tasks) |-> tasks[i].out]

\* Lines 131-138 for the results of a task.
BuildResult(domain, results) == CompanyResult(domain, results)

\* The frame of a batch_search that returned, once its caller has let go of
\* the list.
Gone ==
    [domains |-> <<>>, queries |-> <<>>, max_parallel |-> 0,
     state |-> "returned", tasks |-> <<>>, finished |-> <<>>, out |-> <<>>]

\* Lines 140-145, and each search_company down to its first gather.
BatchStart(domains, queries, max_parallel) ==
    /\ Len(batches) < MaxBatches
    /\ \A b \in 1 .. Len(batches) : batches[b].state = "returned"
    /\ LET b == Len(batches) + 1
           sem == Len(permits) + 1
           n == Len(domains)
           idle == queries = <<>>
           task(i) ==
               [domain |-> domains[i], qi |-> 1, results |-> <<>>,
                got |-> IF idle THEN <<>>
                        ELSE GotAtLaunch(domains[i], queries[1]),
                out |-> IF idle THEN BuildResult(domains[i], <<>>) ELSE None]
           new(i) == IF idle THEN <<>>
                     ELSE Launch(b, i, domains[i], queries[1], sem)
           frames == [c \in UNION {DOMAIN new(i) : i \in 1 .. n} |->
                         new(c[2])[c]]
           requests == [i \in 1 .. n |->
                           IF idle THEN 0
                           ELSE CountRequests(domains[i], queries[1])]
           hits == [i \in 1 .. n |->
                       IF idle THEN 0 ELSE CountHits(domains[i], queries[1])]
       IN  /\ permits' = Append(permits, max_parallel)
           /\ semaphore' = sem
           /\ batches' = Append([k \in 1 .. Len(batches) |-> Gone],
                  [domains |-> domains, queries |-> queries,
                   max_parallel |-> max_parallel, state |-> "running",
                   tasks |-> [i \in 1 .. n |-> task(i)],
                   finished |-> IF idle THEN [i \in 1 .. n |-> i] ELSE <<>>,
                   out |-> <<>>])
           /\ calls' = Merge(calls, frames)
           /\ total_requests' = total_requests + SumOver(requests, 1 .. n)
           /\ cache_hits' = cache_hits + SumOver(hits, 1 .. n)
    /\ UNCHANGED << strhash, CACHE, failed_requests, directVars, pending,
                    dedupVars, apiVars >>

\* Lines 126-138: the gather of one query returns; the task goes on to the
\* next query or, after the last, builds its result and returns.
QueryGathered(b, i) ==
    /\ b \in 1 .. Len(batches)
    /\ batches[b].state = "running"
    /\ i \in 1 .. Len(batches[b].tasks)
    /\ batches[b].tasks[i].out = None
    /\ \A s \in Sources : batches[b].tasks[i].got[s] # None
    /\ LET t == batches[b].tasks[i]
           results == t.results \o t.got
           last == t.qi = Len(batches[b].queries)
           query == batches[b].queries[t.qi + 1]
       IN  IF last
           THEN /\ batches' =
                      [batches EXCEPT
                         ![b].tasks[i] =
                             [t EXCEPT !.results = results,
                                       !.out = BuildResult(t.domain, results)],
                         ![b].finished = Append(@, i)]
                /\ UNCHANGED << calls, total_requests, cache_hits >>
           ELSE /\ batches' =
                      [batches EXCEPT
                         ![b].tasks[i] =
                             [t EXCEPT !.results = results, !.qi = @ + 1,
                                       !.got = GotAtLaunch(t.domain, query)]]
                /\ calls' = Merge(calls, Launch(b, i, t.domain, query,
                                                semaphore))
                /\ total_requests' =
                       total_requests + CountRequests(t.domain, query)
                /\ cache_hits' = cache_hits + CountHits(t.domain, query)
    /\ UNCHANGED << strhash, CACHE, failed_requests, semaphore, permits,
                    directVars, pending, dedupVars, apiVars >>

\* Line 145: every task has returned, and batch_search returns the list.
BatchReturn(b) ==
    /\ b \in 1 .. Len(batches)
    /\ batches[b].state = "running"
    /\ \A i \in 1 .. Len(batches[b].tasks) : batches[b].tasks[i].out # None
    /\ batches' = [batches EXCEPT
                     ![b].state = "returned",
                     ![b].out = GatherTasks(batches[b].tasks,
                                            batches[b].finished)]
    /\ UNCHANGED << strhash, CACHE, failed_requests, total_requests,
                    cache_hits, semaphore, permits, calls, directVars,
                    pending, dedupVars, apiVars >>

\* The lists a caller may hand to batch_search.  Domains are interchangeable,
\* so the lists are taken up to a renaming of the domains.
RECURSIVE SeqsUpTo(_, _)
SeqsUpTo(S, n) ==
    IF n = 0 THEN {<<>>}
    ELSE LET shorter == SeqsUpTo(S, n - 1)
         IN  shorter \cup {Append(q, x) : q \in shorter, x \in S}

DomainLists ==
    {l \in SeqsUpTo(Domains, MaxDomains) : l = <<>> \/ l[1] = "a.com"}

QueryLists == SeqsUpTo(Queries, MaxQueries)

BatchInputs ==
    {in \in DomainLists \X QueryLists : Len(in[1]) * Len(in[2]) <= MaxWork}


(***************************************************************************)
(* A caller of safe_call itself, one call after the other, as a test of    *)
(* the retry and cache behaviour makes them.  Its call is calls[Direct].   *)
(***************************************************************************)
Counters ==
    [failed_requests |-> failed_requests, total_requests |-> total_requests,
     cache_hits |-> cache_hits]

Running(c) == c \in DOMAIN calls

\* A safe_call that counts a request only once the lookup has missed.
DirectCallCountingMisses(func, domain, query, retries) ==
    /\ ncalls < MaxCalls
    /\ ~Running(Direct)
    /\ ncalls' = ncalls + 1
    /\ snap' = Counters
    /\ prev' = IF returned = None THEN prev
               ELSE [domain |-> returned.domain, query |-> returned.query,
                     result |-> returned.result]
    /\ LET frame == Prologue(func, domain, query, retries, semaphore)
       IN  IF CacheHit(domain, query)
           THEN /\ cache_hits' = cache_hits + 1
                /\ returned' = ReturnFrame(
                       frame, CacheGet(hash_key(domain, query)), "hit", "")
                /\ UNCHANGED << calls, total_requests >>
           ELSE /\ calls' = Merge(calls, [c \in {Direct} |-> frame])
                /\ returned' = None
                /\ total_requests' = total_requests + 1
                /\ UNCHANGED cache_hits
    /\ UNCHANGED << strhash, CACHE, failed_requests, semaphore, permits,
                    batches, pending, dedupVars, apiVars >>

\* await pipeline.safe_call(func, domain, query, retries), made once the
\* direct call before it has returned.
DirectCall(func, domain, query, retries) ==
    /\ ncalls < MaxCalls
    /\ ~Running(Direct)
    /\ ncalls' = ncalls + 1
    /\ snap' = Counters
    /\ prev' = IF returned = None THEN prev
               ELSE [domain |-> returned.domain, query |-> returned.query,
                     result |-> returned.result]
    /\ total_requests' = total_requests + 1
    /\ LET frame == Prologue(func, domain, query, retries, semaphore)
       IN  IF CacheHit(domain, query)
           THEN /\ cache_hits' = cache_hits + 1
                /\ returned' = ReturnFrame(
                       frame, CacheGet(hash_key(domain, query)), "hit", "")
                /\ UNCHANGED calls
           ELSE /\ calls' = Merge(calls, [c \in {Direct} |-> frame])
                /\ returned' = None
                /\ UNCHANGED cache_hits
    /\ UNCHANGED << strhash, CACHE, failed_requests, semaphore, permits,
                    batches, pending, dedupVars, apiVars >>

\* pipeline.semaphore = asyncio.Semaphore(n): what line 142 of batch_search
\* does, and what a caller of safe_call or search_company has to do itself.
SetSemaphore(n) ==
    /\ Len(permits) < MaxBatches
    /\ permits' = Append(permits, n)
    /\ semaphore' = Len(permits) + 1
    /\ UNCHANGED << strhash, CACHE, failed_requests, total_requests,
                    cache_hits, batches, calls, directVars, pending,
                    dedupVars, apiVars >>

(***************************************************************************)
(* utils.py: cached_search.  Its semaphore is the caller's own argument,   *)
(* not the pipeline's, and is taken to have a free permit.                 *)
(***************************************************************************)

\* The sources a caller may hand to cached_search as search_fn, as indexes
\* of SOURCES.
SearchFns == {1, 2}

\* Lines 52-55 and 58: the lookup; a miss goes on to call search_fn.
CachedSearchStart(domain, query, search_fn) ==
    /\ ncalls < MaxCalls
    /\ ncalls' = ncalls + 1
    /\ pending' = IF CacheHit(domain, query) THEN pending
                  ELSE Append(pending, [domain |-> domain, query |-> query,
                                        search_fn |-> search_fn])
    /\ UNCHANGED << strhash, CACHE, failed_requests, total_requests,
                    cache_hits, semaphore, permits, batches, calls, returned,
                    prev, snap, dedupVars, apiVars >>

RemoveAt(q, k) == SubSeq(q, 1, k - 1) \o SubSeq(q, k + 1, Len(q))

\* Line 61: CACHE.set(key, result), whatever search_fn returned.
StoreResult(key, rec) == CacheSet(CACHE, key, rec)

\* Lines 60-62: search_fn returned rec, which is stored and returned.
CachedSearchStore(k, rec) ==
    /\ k \in 1 .. Len(pending)
    /\ CACHE' = StoreResult(hash_key(pending[k].domain, pending[k].query), rec)
    /\ pending' = RemoveAt(pending, k)
    /\ UNCHANGED << strhash, failed_requests, total_requests, cache_hits,
                    semaphore, permits, batches, calls, directVars,
                    dedupVars, apiVars >>

\* Line 60: search_fn raised; the exception leaves cached_search and nothing
\* is stored.
CachedSearchRaises(k) ==
    /\ k \in 1 .. Len(pending)
    /\ pending' = RemoveAt(pending, k)
    /\ UNCHANGED << strhash, CACHE, failed_requests, total_requests,
                    cache_hits, semaphore, permits, batches, calls,
                    directVars, dedupVars, apiVars >>

(***************************************************************************)
(* deduplicate_evidence, called on a list of its own.                      *)
(***************************************************************************)
DedupRecords ==
    {SuccessRecord(SOURCES[1], "a.com", "x", c, conf) :
        c \in Contents, conf \in Confidences}
    \cup {ErrorRecord(m) : m \in Messages}

NotRun == [ran |-> FALSE, raised |-> FALSE, list |-> <<>>]

Dedup ==
    /\ ~deduped.ran
    /\ deduped' = IF DedupRaises(evidence_list)
                  THEN [ran |-> TRUE, raised |-> TRUE, list |-> <<>>]
                  ELSE [ran |-> TRUE, raised |-> FALSE,
                        list |-> deduplicate_evidence(evidence_list)]
    /\ UNCHANGED << strhash, CACHE, failed_requests, total_requests,
                    cache_hits, semaphore, permits, batches, calls,
                    directVars, pending, evidence_list, apiVars >>

(***************************************************************************)
(* The specifications.                                                     *)
(***************************************************************************)

\* hash() is keyed by a secret drawn when the process starts.  Only the
\* equality of two hashes is ever read, so the functions are taken up to a
\* renaming of their values.
HashFns == {f \in [Contents -> HashVals] : f["AI"] = 1}

EmptyCache == [k \in Keys |-> None]

CachedRecords ==
    {SuccessRecord(SOURCES[1], d, q, "AI", 80) : d \in Domains, q \in Queries}

\* A new SearchPipeline (lines 81-85) in a process that has called nothing.
InitPipeline ==
    /\ strhash \in HashFns
    /\ failed_requests = 0
    /\ total_requests = 0
    /\ cache_hits = 0
    /\ semaphore = 0
    /\ permits = <<>>
    /\ batches = <<>>
    /\ calls = <<>>
    /\ returned = None
    /\ prev = None
    /\ snap = Counters
    /\ ncalls = 0
    /\ pending = <<>>
    /\ deduped = NotRun
    /\ metrics = None
    /\ response = None
    /\ stream = None
    /\ events = <<>>

\* What earlier cached_search calls of the process may have left in CACHE.
InitialCaches ==
    {cache \in [Keys -> {None, ErrorRecord("boom")} \cup CachedRecords] :
        \A d \in Domains, q \in Queries :
            LET rec == cache[hash_key(d, q)]
            IN  rec \in CachedRecords => rec.domain = d /\ rec.query = q}

\* batch_search on a new pipeline.
Init ==
    /\ InitPipeline
    /\ CACHE \in InitialCaches
    /\ evidence_list = <<>>

\* safe_call and cached_search on a new pipeline of a new process.
InitCall ==
    /\ InitPipeline
    /\ CACHE = EmptyCache
    /\ evidence_list = <<>>

Next ==
    \/ \E in \in BatchInputs, n \in 1 .. MaxParallel :
          BatchStart(in[1], in[2], n)
    \/ \E b \in 1 .. MaxBatches, i \in 1 .. MaxDomains : QueryGathered(b, i)
    \/ \E b \in 1 .. MaxBatches : BatchReturn(b)
    \/ \E c \in DOMAIN calls : Acquire(c)
    \/ \E c \in DOMAIN calls :
          \E rec \in SourceRecords(calls[c].func, calls[c].domain,
                                    calls[c].query) : SourceReturns(c, rec)
    \/ \E c \in DOMAIN calls, m \in Messages : SourceRaises(c, m)
    \/ \E c \in DOMAIN calls : SourceTimesOut(c)
    \/ \E c \in DOMAIN calls : BackoffDone(c)

Spec == Init /\ [][Next]_vars

\* Direct calls of safe_call and cached_search on a new pipeline.
NextCall ==
    \/ \E func \in Sources, domain \in Domains, query \in Queries,
          retries \in 0 .. MaxRetries :
          DirectCall(func, domain, query, retries)
    \/ \E n \in 1 .. MaxParallel : SetSemaphore(n)
    \/ \E domain \in Domains, query \in Queries, search_fn \in SearchFns :
          CachedSearchStart(domain, query, search_fn)
    \/ \E k \in 1 .. Len(pending) :
          \E rec \in SourceRecords(pending[k].search_fn, pending[k].domain,
                                    pending[k].query) :
             CachedSearchStore(k, rec)
    \/ \E k \in 1 .. Len(pending) : CachedSearchRaises(k)
    \/ \E c \in DOMAIN calls : Acquire(c)
    \/ \E c \in DOMAIN calls :
          \E rec \in SourceRecords(calls[c].func, calls[c].domain,
                                    calls[c].query) : SourceReturns(c, rec)
    \/ \E c \in DOMAIN calls, m \in Messages : SourceRaises(c, m)
    \/ \E c \in DOMAIN calls : SourceTimesOut(c)
    \/ \E c \in DOMAIN calls : EnterFails(c)
    \/ \E c \in DOMAIN calls : BackoffDone(c)

SpecCall == InitCall /\ [][NextCall]_vars

\* deduplicate_evidence on every list of at most MaxLen records.
InitDedup ==
    /\ InitPipeline
    /\ CACHE = EmptyCache
    /\ evidence_list \in SeqsUpTo(DedupRecords, MaxLen)

NextDedup == Dedup

SpecDedup == InitDedup /\ [][NextDedup]_vars

(***************************************************************************)
(* search_pipeline.py: SearchPipeline.get_metrics, on a pipeline whose     *)
(* counters are whatever earlier calls have left.                          *)
(***************************************************************************)

\* A cache_hit_rate that is cut to two decimals instead of rounded.
CacheHitRateTruncated ==
    IF total_requests # 0 THEN (100 * cache_hits) \div total_requests ELSE 0

\* Lines 150-151: round(cache_hits / total_requests, 2) if total_requests
\* else 0, in hundredths.
CacheHitRate ==
    IF total_requests # 0 THEN Round2(100 * cache_hits, total_requests) ELSE 0

\* A get_metrics that starts a new reporting window: it hands the counters
\* over and sets them back to 0.
GetMetricsAndReset ==
    /\ metrics' = [failed_requests |-> failed_requests,
                   cache_hit_rate |-> CacheHitRate]
    /\ failed_requests' = 0
    /\ total_requests' = 0
    /\ cache_hits' = 0
    /\ UNCHANGED << strhash, CACHE, semaphore, permits, batches, calls,
                    directVars, pending, dedupVars, mainVars >>

\* Lines 147-152.
GetMetrics ==
    /\ metrics' = [failed_requests |-> failed_requests,
                   cache_hit_rate |-> CacheHitRate]
    /\ UNCHANGED << strhash, CACHE, failed_requests, total_requests,
                    cache_hits, semaphore, permits, batches, calls,
                    directVars, pending, dedupVars, mainVars >>

\* The counters of a pipeline that has made up to MaxRequests safe_calls:
\* every call counts one request, a hit is one of them, and only a call that
\* missed can have failed.
InitMetrics ==
    /\ InitPipeline
    /\ CACHE = EmptyCache
    /\ evidence_list = <<>>

SomeCounters ==
    {c \in [failed_requests : 0 .. MaxFailures,
            total_requests : 0 .. MaxRequests,
            cache_hits : 0 .. MaxRequests] :
        /\ c.cache_hits <= c.total_requests
        /\ c.cache_hits = c.total_requests => c.failed_requests = 0}

\* The calls made before the snapshot, taken together.
EarlierCalls(c) ==
    /\ metrics = None
    /\ total_requests = 0
    /\ c.total_requests > 0
    /\ failed_requests' = c.failed_requests
    /\ total_requests' = c.total_requests
    /\ cache_hits' = c.cache_hits
    /\ UNCHANGED << strhash, CACHE, semaphore, permits, batches, calls,
                    directVars, pending, dedupVars, apiVars >>

NextMetrics ==
    \/ \E c \in SomeCounters : EarlierCalls(c)
    \/ GetMetrics

SpecMetrics == InitMetrics /\ [][NextMetrics]_vars

(***************************************************************************)
(* The life of one pipeline: batch_search calls one after the other, with  *)
(* the search_company tasks and safe_calls they make, and one get_metrics  *)
(* at any moment, on a process whose cache an earlier cached_search call   *)
(* may have filled for a.com.                                              *)
(***************************************************************************)
LifeCaches ==
    {cache \in InitialCaches : cache[hash_key("b.com", "x")] = None}

InitLife ==
    /\ InitPipeline
    /\ CACHE \in LifeCaches
    /\ evidence_list = <<>>

NextLife ==
    \/ \E in \in BatchInputs, n \in 1 .. MaxParallel :
          BatchStart(in[1], in[2], n)
    \/ \E b \in 1 .. MaxBatches, i \in 1 .. MaxDomains : QueryGathered(b, i)
    \/ \E b \in 1 .. MaxBatches : BatchReturn(b)
    \/ \E c \in DOMAIN calls : Acquire(c)
    \/ \E c \in DOMAIN calls :
          \E rec \in SourceRecords(calls[c].func, calls[c].domain,
                                    calls[c].query) : SourceReturns(c, rec)
    \/ \E c \in DOMAIN calls, m \in Messages : SourceRaises(c, m)
    \/ \E c \in DOMAIN calls : SourceTimesOut(c)
    \/ \E c \in DOMAIN calls : BackoffDone(c)
    \/ /\ metrics = None
       /\ GetMetrics

SpecLife == InitLife /\ [][NextLife]_vars

(***************************************************************************)
(* One batch_search under a scheduler that is fair: the event loop runs    *)
(* every coroutine that is ready, a free permit is handed to a waiter, a   *)
(* sleep ends, and every source invocation ends, by itself or by the 5 s   *)
(* timeout of wait_for.                                                    *)
(***************************************************************************)
SourceEnds ==
    \/ \E c \in DOMAIN calls :
          \E rec \in SourceRecords(calls[c].func, calls[c].domain,
                                    calls[c].query) : SourceReturns(c, rec)
    \/ \E c \in DOMAIN calls, m \in Messages : SourceRaises(c, m)
    \/ \E c \in DOMAIN calls : SourceTimesOut(c)

NextLive ==
    \/ /\ batches = <<>>
       /\ \E in \in BatchInputs, n \in 1 .. MaxParallel :
             BatchStart(in[1], in[2], n)
    \/ \E b \in 1 .. MaxBatches, i \in 1 .. MaxDomains : QueryGathered(b, i)
    \/ \E b \in 1 .. MaxBatches : BatchReturn(b)
    \/ \E c \in DOMAIN calls : Acquire(c)
    \/ \E c \in DOMAIN calls :
          \E rec \in SourceRecords(calls[c].func, calls[c].domain,
                                    calls[c].query) : SourceReturns(c, rec)
    \/ \E c \in DOMAIN calls, m \in Messages : SourceRaises(c, m)
    \/ \E c \in DOMAIN calls : SourceTimesOut(c)
    \/ \E c \in DOMAIN calls : BackoffDone(c)

Fairness ==
    /\ WF_vars(\E b \in 1 .. MaxBatches, i \in 1 .. MaxDomains :
                   QueryGathered(b, i))
    /\ WF_vars(\E b \in 1 .. MaxBatches : BatchReturn(b))
    /\ WF_vars(\E c \in DOMAIN calls : Acquire(c))
    /\ WF_vars(SourceEnds)
    /\ WF_vars(\E c \in DOMAIN calls : BackoffDone(c))

SpecLive == Init /\ [][NextLive]_vars /\ Fairness

(***************************************************************************)
(* batch_search calls that overlap on one pipeline, as two requests served *)
(* by the pipeline of main.py make them: a call begins while the one       *)
(* before it is still running, and line 142 puts its semaphore in the      *)
(* place of the other's.                                                   *)
(***************************************************************************)

\* Lines 140-145 of a batch_search that may find another one running.
BatchStartDuring(domains, queries, max_parallel) ==
    /\ Len(batches) < MaxBatches
    /\ domains # <<>>
    /\ queries # <<>>
    /\ LET b == Len(batches) + 1
           sem == Len(permits) + 1
           n == Len(domains)
           task(i) ==
               [domain |-> domains[i], qi |-> 1, results |-> <<>>,
                got |-> GotAtLaunch(domains[i], queries[1]), out |-> None]
           new(i) == Launch(b, i, domains[i], queries[1], sem)
           frames == [c \in UNION {DOMAIN new(i) : i \in 1 .. n} |->
                         new(c[2])[c]]
           requests == [i \in 1 .. n |->
                           CountRequests(domains[i], queries[1])]
           hits == [i \in 1 .. n |-> CountHits(domains[i], queries[1])]
       IN  /\ permits' = Append(permits, max_parallel)
           /\ semaphore' = sem
           /\ batches' = Append(batches,
                  [domains |-> domains, queries |-> queries,
                   max_parallel |-> max_parallel, state |-> "running",
                   tasks |-> [i \in 1 .. n |-> task(i)],
                   finished |-> <<>>, out |-> <<>>])
           /\ calls' = Merge(calls, frames)
           /\ total_requests' = total_requests + SumOver(requests, 1 .. n)
           /\ cache_hits' = cache_hits + SumOver(hits, 1 .. n)
    /\ UNCHANGED << strhash, CACHE, failed_requests, directVars, pending,
                    dedupVars, apiVars >>

\* The overlapping batches are taken with one query each, and the one that
\* begins during another with one domain.
OverlapInputs ==
    {in \in BatchInputs :
        /\ Len(in[2]) = 1
        /\ batches # <<>> => Len(in[1]) = 1}

\* What a source returns there: the admission of its call does not depend
\* on it, so one record stands for them all.
OverlapRecords(func, domain, query) ==
    {SuccessRecord(SOURCES[func], domain, query, "AI", 80)}

NextOverlap ==
    \/ \E in \in OverlapInputs, n \in 1 .. MaxParallel :
          BatchStartDuring(in[1], in[2], n)
    \/ \E b \in 1 .. MaxBatches, i \in 1 .. MaxDomains : QueryGathered(b, i)
    \/ \E b \in 1 .. MaxBatches : BatchReturn(b)
    \/ \E c \in DOMAIN calls : Acquire(c)
    \/ \E c \in DOMAIN calls :
          \E rec \in OverlapRecords(calls[c].func, calls[c].domain,
                                     calls[c].query) : SourceReturns(c, rec)
    \/ \E c \in DOMAIN calls, m \in Messages : SourceRaises(c, m)
    \/ \E c \in DOMAIN calls : SourceTimesOut(c)
    \/ \E c \in DOMAIN calls : BackoffDone(c)

SpecOverlap == InitCall /\ [][NextOverlap]_vars

(***************************************************************************)
(* search_pipeline.py: stream_evidence, called on a pipeline whose         *)
(* semaphore is None or was set before.  The frame of the generator holds  *)
(* its arguments, the (domain, query) pairs of itertools.product and the   *)
(* items yielded so far, each with the coroutine it came from.  The        *)
(* consumer is taken to ask for each item as soon as it is there.          *)
(***************************************************************************)

\* Lines 162-165: the sources of stream_evidence, as indexes of SOURCES.
STREAM_SOURCES == << 2, 1, 3, 5 >>

\* itertools.product(domains, queries): the pairs, the last argument
\* changing fastest.
Product(domains, queries) ==
    [k \in 1 .. Len(domains) * Len(queries) |->
        << domains[((k - 1) \div Len(queries)) + 1],
           queries[((k - 1) % Len(queries)) + 1] >>]

\* Lines 88-94 and 96-100 of each coroutine of the generator, run to its
\* first await: a call that hits the cache is about to return.
StreamCalls(b, pairs, sem) ==
    [c \in {<<b, k, s>> : k \in 1 .. Len(pairs),
                           s \in 1 .. Len(STREAM_SOURCES)} |->
        LET frame == Prologue(STREAM_SOURCES[c[3]], pairs[c[2]][1],
                              pairs[c[2]][2], DEFAULT_RETRIES, sem)
        IN  IF CacheHit(pairs[c[2]][1], pairs[c[2]][2])
            THEN [frame EXCEPT !.pc = "hit"]
            ELSE frame]

\* Lines 154-168: the generator builds its coroutines and as_completed
\* starts them all.
StreamEvidenceStart(domains, queries) ==
    /\ batches = <<>>
    /\ LET pairs == Product(domains, queries)
           frames == StreamCalls(1, pairs, semaphore)
           hits == {c \in DOMAIN frames : frames[c].pc = "hit"}
       IN  /\ batches' = << [domains |-> domains, queries |-> queries,
                             pairs |-> pairs, yielded |-> <<>>,
                             state |-> "open"] >>
           /\ calls' = Merge(calls, frames)
           /\ total_requests' = total_requests + Cardinality(DOMAIN frames)
           /\ cache_hits' = cache_hits + Cardinality(hits)
    /\ UNCHANGED << strhash, CACHE, failed_requests, semaphore, permits,
                    directVars, pending, dedupVars, apiVars >>

\* Line 94: a call that hit the cache returns the cached record.
StreamEvidenceHit(c) ==
    /\ calls[c].pc = "hit"
    /\ Return(c, calls[c],
              CacheGet(hash_key(calls[c].domain, calls[c].query)), "hit", "")
    /\ UNCHANGED << strhash, CACHE, failed_requests, total_requests,
                    cache_hits, semaphore, permits, prev, snap, ncalls,
                    pending, dedupVars, apiVars >>

\* Line 168 after the last future: the loop and the generator end.
StreamEvidenceEnd(b) ==
    /\ b \in 1 .. Len(batches)
    /\ IsEvidenceStream(batches[b])
    /\ batches[b].state = "open"
    /\ Len(batches[b].yielded)
           = Len(batches[b].pairs) * Len(STREAM_SOURCES)
    /\ batches' = [batches EXCEPT ![b].state = "closed"]
    /\ UNCHANGED << strhash, CACHE, failed_requests, total_requests,
                    cache_hits, semaphore, permits, calls, directVars,
                    pending, dedupVars, apiVars >>

\* The generator is taken with the pairs of one key at most missing the
\* cache, on a cache that is empty or holds a record for every key.
EvidenceCaches ==
    {EmptyCache,
     [k \in Keys |-> SuccessRecord(SOURCES[1], "a.com", "x", "AI", 80)]}

StreamEvidenceInputs ==
    {in \in BatchInputs :
        Len(in[1]) * Len(in[2]) > MaxStreamMisses =>
            \A i \in 1 .. Len(in[1]), j \in 1 .. Len(in[2]) :
                CacheHit(in[1][i], in[2][j])}

\* stream_evidence never calls hash(): one hash function stands for all.
InitEvidence ==
    /\ InitPipeline
    /\ strhash["ai"] = 2
    /\ CACHE \in EvidenceCaches
    /\ evidence_list = <<>>

NextEvidence ==
    \/ /\ batches = <<>>
       /\ permits = <<>>
       /\ \E n \in 1 .. MaxParallel : SetSemaphore(n)
    \/ \E in \in StreamEvidenceInputs : StreamEvidenceStart(in[1], in[2])
    \/ \E c \in DOMAIN calls : StreamEvidenceHit(c)
    \/ \E b \in 1 .. MaxBatches : StreamEvidenceEnd(b)
    \/ \E c \in DOMAIN calls : Acquire(c)
    \/ \E c \in DOMAIN calls :
          \E rec \in OverlapRecords(calls[c].func, calls[c].domain,
                                     calls[c].query) : SourceReturns(c, rec)
    \/ \E c \in DOMAIN calls, m \in Messages : SourceRaises(c, m)
    \/ \E c \in DOMAIN calls : SourceTimesOut(c)
    \/ \E c \in DOMAIN calls : EnterFails(c)
    \/ \E c \in DOMAIN calls : BackoffDone(c)

SpecEvidence == InitEvidence /\ [][NextEvidence]_vars

(***************************************************************************)
(* search_company called by itself, as the smoke tests call it: no         *)
(* batch_search has made a semaphore, and self.semaphore is None unless    *)
(* the caller has set it.  The call has a frame of batches like a batch of *)
(* its one domain, with max_parallel 0 for the pool nobody made.           *)
(***************************************************************************)

\* result = await pipeline.search_company(domain, queries, session): lines
\* 115-126, down to the first gather.
SearchCompanyCall(domain, queries) ==
    /\ Len(batches) < MaxBatches
    /\ \A b \in 1 .. Len(batches) : batches[b].state = "returned"
    /\ LET b == Len(batches) + 1
           idle == queries = <<>>
           task == [domain |-> domain, qi |-> 1, results |-> <<>>,
                    got |-> IF idle THEN <<>>
                            ELSE GotAtLaunch(domain, queries[1]),
                    out |-> IF idle THEN BuildResult(domain, <<>>) ELSE None]
       IN  /\ batches' = Append([k \in 1 .. Len(batches) |-> Gone],
                  [domains |-> <<domain>>, queries |-> queries,
                   max_parallel |-> 0, state |-> "running",
                   tasks |-> <<task>>,
                   finished |-> IF idle THEN <<1>> ELSE <<>>,
                   out |-> <<>>])
           /\ calls' = IF idle THEN calls
                       ELSE Merge(calls, Launch(b, 1, domain, queries[1],
                                                semaphore))
           /\ total_requests' =
                  total_requests
                      + (IF idle THEN 0 ELSE CountRequests(domain, queries[1]))
           /\ cache_hits' =
                  cache_hits
                      + (IF idle THEN 0 ELSE CountHits(domain, queries[1]))
    /\ UNCHANGED << strhash, CACHE, failed_requests, semaphore, permits,
                    directVars, pending, dedupVars, apiVars >>

\* Line 133: search_company returns its dict to the caller.
SearchCompanyReturn(b) ==
    /\ b \in 1 .. Len(batches)
    /\ batches[b].state = "running"
    /\ batches[b].tasks[1].out # None
    /\ batches' = [batches EXCEPT ![b].state = "returned",
                                  ![b].out = <<batches[b].tasks[1].out>>]
    /\ UNCHANGED << strhash, CACHE, failed_requests, total_requests,
                    cache_hits, semaphore, permits, calls, directVars,
                    pending, dedupVars, apiVars >>

NextCompany ==
    \/ \E domain \in Domains, queries \in QueryLists :
          SearchCompanyCall(domain, queries)
    \/ \E b \in 1 .. MaxBatches : QueryGathered(b, 1)
    \/ \E b \in 1 .. MaxBatches : SearchCompanyReturn(b)
    \/ \E n \in 1 .. MaxParallel : SetSemaphore(n)
    \/ \E c \in DOMAIN calls : Acquire(c)
    \/ \E c \in DOMAIN calls :
          \E rec \in SourceRecords(calls[c].func, calls[c].domain,
                                    calls[c].query) : SourceReturns(c, rec)
    \/ \E c \in DOMAIN calls, m \in Messages : SourceRaises(c, m)
    \/ \E c \in DOMAIN calls : SourceTimesOut(c)
    \/ \E c \in DOMAIN calls : EnterFails(c)
    \/ \E c \in DOMAIN calls : BackoffDone(c)

SpecCompany == InitCall /\ [][NextCompany]_vars

(***************************************************************************)
(* query_generator.py and main.py: what the two endpoints hand to          *)
(* batch_search.  Relevance scores and the confidence threshold are in     *)
(* hundredths.                                                             *)
(***************************************************************************)

\* generate_queries(research_goal, n_min=8, ...) and the min_required=3 of
\* expand_queries.
N_MIN == 8
EXPAND_MIN == 3

\* The queries[:5] and queries[:10] of the depths quick and standard.
QUICK_QUERIES == 5
STANDARD_QUERIES == 10

\* ResearchRequest.search_depth.
DEPTHS == {"quick", "standard", "comprehensive"}

Relevances == {50, 90}
Thresholds == {50, 90}

QueryStrategy(q, r) == [query_text |-> q, relevance_score |-> r]

\* The strategy _parse_lines falls back on.
FALLBACK ==
    QueryStrategy("site:company.com product launch press release", 50)

\* What _parse_lines may have parsed from the lines of the LLM's answer.
ParsedLists ==
    SeqsUpTo({QueryStrategy(q, r) : q \in Queries, r \in Relevances},
             MaxParsed)

\* _parse_lines, from the strategies it parsed: with fewer than min_required
\* of them it appends the fallback.
parse_lines(parsed, min_required) ==
    IF Len(parsed) < min_required THEN Append(parsed, FALLBACK) ELSE parsed

generate_queries(parsed) == parse_lines(parsed, N_MIN)

expand_queries(parsed) == parse_lines(parsed, EXPAND_MIN)

\* list.sort(key=relevance_score, reverse=True): stable, highest first.
RECURSIVE InsertByRelevance(_, _)
InsertByRelevance(sorted, st) ==
    IF sorted = <<>> THEN <<st>>
    ELSE IF Head(sorted).relevance_score >= st.relevance_score
         THEN <<Head(sorted)>> \o InsertByRelevance(Tail(sorted), st)
         ELSE <<st>> \o sorted

RECURSIVE SortByRelevance(_)
SortByRelevance(strategies) ==
    IF strategies = <<>> THEN <<>>
    ELSE InsertByRelevance(
             SortByRelevance(SubSeq(strategies, 1, Len(strategies) - 1)),
             strategies[Len(strategies)])

QueryTexts(strategies) ==
    [k \in 1 .. Len(strategies) |-> strategies[k].query_text]

\* Query texts taken in the order in which the generator returned them.
GeneratedQueriesAsParsed(parsed) == QueryTexts(generate_queries(parsed))

\* Lines 33-35 and 106-108.
GeneratedQueries(parsed) ==
    QueryTexts(SortByRelevance(generate_queries(parsed)))

\* queries[:n]
Prefix(list, n) == SubSeq(list, 1, Min(n, Len(list)))

\* A request body that pydantic has accepted as a ResearchRequest:
\* max_parallel_searches is an int with no bounds, so zero and negative
\* numbers are accepted too.
Requests ==
    [company_domains : DomainLists, search_depth : DEPTHS,
     max_parallel_searches : -1 .. MaxParallel,
     confidence_threshold : Thresholds]

\* What the sources give a domain in the first run and in the re-run: an
\* error on every call, or a record of the given confidence on every call.
Fails == [fails |-> TRUE]

Gives(confidence) == [confidence |-> confidence]

Outcomes == {Fails} \cup {Gives(c) : c \in Confidences}

Worlds == [Domains -> [first : Outcomes, rerun : Outcomes]]

\* The parameters of SearchPipeline.batch_search, and the keywords the four
\* calls of main.py pass.
BATCH_SEARCH_PARAMS == {"domains", "queries", "session", "max_parallel"}

CALL_KEYWORDS ==
    {"domains", "queries", "session", "research_goal", "max_parallel"}

\* Python binds the keywords of a call to the parameters of the function,
\* and raises a TypeError for a keyword that names none.
Binds(keywords, params) == keywords \subseteq params

TYPE_ERROR ==
    "batch_search() got an unexpected keyword argument 'research_goal'"

\* The records the safe_calls of one search_company return when each call
\* ends the same way.
RunResults(domain, queries, outcome) ==
    [k \in 1 .. Len(queries) * Cardinality(Sources) |->
        IF outcome = Fails THEN ErrorRecord(TIMEOUT_MSG)
        ELSE SuccessRecord(SOURCES[1], domain, "x", "AI",
                           outcome.confidence)]

\* await pipeline.batch_search(domains=..., queries=..., session=...,
\* research_goal=..., max_parallel=...): the call raises where the keywords
\* do not bind, and else returns the list of the domains' results.
BatchSearchCall(domains, queries, outcomes) ==
    IF Binds(CALL_KEYWORDS, BATCH_SEARCH_PARAMS)
    THEN [raised |-> FALSE,
          value |-> [i \in 1 .. Len(domains) |->
                        CompanyResult(domains[i],
                            RunResults(domains[i], queries,
                                       outcomes[domains[i]]))]]
    ELSE [raised |-> TRUE, error |-> TYPE_ERROR]

(***************************************************************************)
(* main.py: research_batch.  A batch_search call that binds is summed up   *)
(* by the list it returns.                                                 *)
(***************************************************************************)

Max(a, b) == IF a > b THEN a ELSE b

\* Lines 45-53: the queries and the pool size the depth makes of the
\* generated queries and of max_parallel_searches.
DepthQueries(depth, queries) ==
    IF depth = "quick" THEN Prefix(queries, QUICK_QUERIES)
    ELSE IF depth = "standard" THEN Prefix(queries, STANDARD_QUERIES)
    ELSE queries

DepthParallel(depth, max_parallel) ==
    IF depth = "quick" THEN Max(1, max_parallel \div 2)
    ELSE IF depth = "comprehensive" THEN max_parallel * 2
    ELSE max_parallel

\* raise HTTPException(status_code, detail), and the dict of lines 85-92.
Failure(status_code, detail) == [status_code |-> status_code, detail |-> detail]

Completed(results) == [status_code |-> 200, results |-> results]

FirstRun(world) == [d \in Domains |-> world[d].first]

\* Lines 69-81 and 139-151: the second batch_search, for one domain, with
\* the queries of expand_queries.
Rerun(domain, expansion, world) ==
    BatchSearchCall(<<domain>>, QueryTexts(expand_queries(expansion)),
                    [d \in Domains |-> world[d].rerun])

\* Lines 68 and 138.
IsWeak(result, threshold) == result.confidence_score < threshold

\* Lines 56-97.
SearchAndExpand(request, queries, expansion, world) ==
    LET first == BatchSearchCall(request.company_domains, queries,
                                 FirstRun(world))
    IN  IF first.raised THEN Failure(500, first.error)
        ELSE LET weak == {i \in 1 .. Len(first.value) :
                             IsWeak(first.value[i],
                                    request.confidence_threshold)}
                 again(i) == Rerun(first.value[i].domain, expansion, world)
             IN  IF \E i \in weak : again(i).raised
                 THEN Failure(500, TYPE_ERROR)
                 ELSE Completed(
                          [i \in 1 .. Len(first.value) |->
                              IF i \in weak THEN again(i).value[1]
                              ELSE first.value[i]])

\* Lines 28-97: the response to a request, given what the generator parsed
\* for the first pass and for an expansion and what the sources give.
research_batch(request, parsed, expansion, world) ==
    LET queries == GeneratedQueries(parsed)
    IN  IF queries = <<>> THEN Failure(400, "Query generation failed.")
        ELSE IF request.search_depth \notin DEPTHS
             THEN Failure(400, "Invalid search_depth value")
             ELSE SearchAndExpand(
                      request,
                      DepthQueries(request.search_depth, queries),
                      expansion, world)

\* No request has reached the process yet.
Idle == response = None /\ stream = None

\* POST /research/batch on a process that has served nothing yet.
ResearchBatch(request, parsed, expansion, world) ==
    /\ Idle
    /\ response' = [request |-> request, parsed |-> parsed,
                    expansion |-> expansion, world |-> world,
                    queries |-> DepthQueries(request.search_depth,
                                             GeneratedQueries(parsed)),
                    max_parallel |->
                        DepthParallel(request.search_depth,
                                      request.max_parallel_searches),
                    reply |-> research_batch(request, parsed, expansion,
                                             world)]
    /\ UNCHANGED << strhash, CACHE, failed_requests, total_requests,
                    cache_hits, semaphore, permits, batches, calls,
                    directVars, pending, dedupVars, metrics, stream,
                    events >>

(***************************************************************************)
(* main.py: research_stream and its generator event_stream.  stream holds  *)
(* the request, the queries and pool size of lines 108-116, and pos, the   *)
(* index of the domain the loop of line 125 is at (0 before the start      *)
(* event); events are the events yielded so far.                           *)
(***************************************************************************)

\* Lines 111-114: the queries of a depth; comprehensive keeps them all.
StreamQueries(depth, queries) ==
    IF depth = "quick" THEN Prefix(queries, QUICK_QUERIES)
    ELSE IF depth = "standard" THEN Prefix(queries, STANDARD_QUERIES)
    ELSE queries

\* The events of lines 121, 155, 159 and 162.
StartEvent == [event |-> "start"]

ResultEvent(result) == [event |-> "message", data |-> result]

ErrorEvent(domain, error) ==
    [event |-> "error", domain |-> domain, error |-> error]

EndEvent == [event |-> "end"]

\* An event_stream that goes through each domain once, however often the
\* request names it.
RECURSIVE DistinctDomains(_)
DistinctDomains(domains) ==
    IF domains = <<>> THEN <<>>
    ELSE LET rest == DistinctDomains(SubSeq(domains, 1, Len(domains) - 1))
             last == domains[Len(domains)]
         IN  IF \E k \in 1 .. Len(rest) : rest[k] = last THEN rest
             ELSE Append(rest, last)

\* Line 125: for domain in request.company_domains.
LoopDomains(domains) == domains

\* Lines 126-159 for one domain: the event it yields.
DomainEvent(st, domain) ==
    LET first == BatchSearchCall(<<domain>>, st.queries, FirstRun(st.world))
    IN  IF first.raised THEN ErrorEvent(domain, first.error)
        ELSE IF IsWeak(first.value[1], st.request.confidence_threshold)
             THEN LET again == Rerun(domain, st.expansion, st.world)
                  IN  IF again.raised THEN ErrorEvent(domain, again.error)
                      ELSE ResultEvent(again.value[1])
             ELSE ResultEvent(first.value[1])

\* An event_stream whose try encloses the whole loop: the first error ends
\* the loop.
LeaveLoopOnError(event, pos, n) ==
    IF event.event = "error" THEN n + 1 ELSE pos + 1

\* The except of line 157 is inside the loop: whatever the event, the loop
\* goes on with the next domain.
NextPos(event, pos, n) == pos + 1

\* POST /research/stream on a process that has served nothing yet: lines
\* 104-116 and 165.
ResearchStream(request, parsed, expansion, world) ==
    /\ Idle
    /\ stream' = [request |-> request, parsed |-> parsed,
                  expansion |-> expansion, world |-> world,
                  queries |-> StreamQueries(request.search_depth,
                                            GeneratedQueries(parsed)),
                  max_parallel |-> request.max_parallel_searches,
                  domains |-> LoopDomains(request.company_domains),
                  pos |-> 0, state |-> "open"]
    /\ events' = <<>>
    /\ UNCHANGED << strhash, CACHE, failed_requests, total_requests,
                    cache_hits, semaphore, permits, batches, calls,
                    directVars, pending, dedupVars, metrics, response >>

\* Line 121.
StreamStart ==
    /\ stream # None
    /\ stream.state = "open"
    /\ stream.pos = 0
    /\ events' = Append(events, StartEvent)
    /\ stream' = [stream EXCEPT !.pos = 1]
    /\ UNCHANGED << strhash, CACHE, failed_requests, total_requests,
                    cache_hits, semaphore, permits, batches, calls,
                    directVars, pending, dedupVars, metrics, response >>

\* Lines 125-159: one turn of the loop.
StreamDomain ==
    /\ stream # None
    /\ stream.state = "open"
    /\ stream.pos \in 1 .. Len(stream.domains)
    /\ LET event == DomainEvent(stream, stream.domains[stream.pos])
       IN  /\ events' = Append(events, event)
           /\ stream' = [stream EXCEPT
                            !.pos = NextPos(event, @, Len(stream.domains))]
    /\ UNCHANGED << strhash, CACHE, failed_requests, total_requests,
                    cache_hits, semaphore, permits, batches, calls,
                    directVars, pending, dedupVars, metrics, response >>

\* Line 162, after the last domain.
StreamEnd ==
    /\ stream # None
    /\ stream.state = "open"
    /\ stream.pos > Len(stream.domains)
    /\ events' = Append(events, EndEvent)
    /\ stream' = [stream EXCEPT !.state = "closed"]
    /\ UNCHANGED << strhash, CACHE, failed_requests, total_requests,
                    cache_hits, semaphore, permits, batches, calls,
                    directVars, pending, dedupVars, metrics, response >>

\* The two endpoints, one request on a new process.
InitApi ==
    /\ InitPipeline
    /\ CACHE = EmptyCache
    /\ evidence_list = <<>>

ExpansionLists == SeqsUpTo({QueryStrategy("x", 90)}, 1)

NextApi ==
    \/ /\ Idle
       /\ \E request \in Requests, parsed \in ParsedLists,
             expansion \in ExpansionLists, world \in Worlds :
             ResearchBatch(request, parsed, expansion, world)
    \/ /\ Idle
       /\ \E request \in Requests, parsed \in ParsedLists,
             expansion \in ExpansionLists, world \in Worlds :
             ResearchStream(request, parsed, expansion, world)
    \/ StreamStart
    \/ StreamDomain
    \/ StreamEnd

SpecApi == InitApi /\ [][NextApi]_vars

(***************************************************************************)
(* The queries of a request whose generator answered with up to            *)
(* MaxStrategies lines: enough of them for the cuts of quick and standard  *)
(* to leave some out.  The k-th line has a query text of its own.          *)
(***************************************************************************)
QUERY_NAMES ==
    << "q01", "q02", "q03", "q04", "q05", "q06", "q07", "q08", "q09", "q10",
       "q11", "q12", "q13" >>

LongParsedLists ==
    {[k \in 1 .. Len(scores) |-> QueryStrategy(QUERY_NAMES[k], scores[k])] :
        scores \in SeqsUpTo(Relevances, Min(MaxStrategies, Len(QUERY_NAMES)))}

\* One request of each depth, for one domain whose sources fail.
QueryRequests ==
    {r \in Requests :
        /\ r.company_domains = << "a.com" >>
        /\ r.max_parallel_searches = 1
        /\ r.confidence_threshold = 50}

NextQueries ==
    \/ /\ Idle
       /\ \E request \in QueryRequests, parsed \in LongParsedLists :
             ResearchBatch(request, parsed, <<>>,
                 [d \in Domains |-> [first |-> Fails, rerun |-> Fails]])
    \/ /\ Idle
       /\ \E request \in QueryRequests, parsed \in LongParsedLists :
             ResearchStream(request, parsed, <<>>,
                 [d \in Domains |-> [first |-> Fails, rerun |-> Fails]])

SpecQueries == InitApi /\ [][NextQueries]_vars

(***************************************************************************)
(* Properties of batch_search (specification Spec).                        *)
(***************************************************************************)

\* Every search_company task of every batch.
Tasks == {<<b, i>> : b \in 1 .. Len(batches), i \in 1 .. MaxDomains}

HasTask(t) == t[2] \in 1 .. Len(batches[t[1]].tasks)

TaskOf(t) == batches[t[1]].tasks[t[2]]

\* C1: the list batch_search returns has exactly one result per input
\* domain, and the result at index i is the one of domains[i], in whatever
\* order the company searches finished.
BatchResultsInInputOrder ==
    \A b \in 1 .. Len(batches) :
        batches[b].state = "returned" =>
            /\ Len(batches[b].out) = Len(batches[b].domains)
            /\ \A i \in 1 .. Len(batches[b].domains) :
                   batches[b].out[i].domain = batches[b].domains[i]

\* A batch over two different domains has returned, the search of the
\* second domain having finished before the search of the first.
BatchReturnedOutOfOrder ==
    \E b \in 1 .. Len(batches) :
        /\ batches[b].state = "returned"
        /\ batches[b].domains = <<"a.com", "b.com">>
        /\ batches[b].finished = <<2, 1>>
        /\ batches[b].out[1].domain = "a.com"
        /\ batches[b].out[2].domain = "b.com"

\* The source invocations in flight: the safe_calls inside wait_for.
InFlight == {c \in DOMAIN calls : calls[c].pc = "inflight"}

\* C2: while batch_search(domains, queries, goal, N) runs, at most N source
\* invocations are in flight at any moment, counted over all the domains of
\* the batch: they share one pool of N permits.
AtMostMaxParallelInFlight ==
    \A b \in 1 .. Len(batches) :
        batches[b].state = "running" =>
            Cardinality(InFlight) <= batches[b].max_parallel

\* A batch over two domains with max_parallel = 1: the call of one domain is
\* in flight and holds the only permit, the call of the other domain waits.
PoolExhaustedAcrossDomains ==
    \E b \in 1 .. Len(batches) :
        /\ batches[b].state = "running"
        /\ batches[b].max_parallel = 1
        /\ Cardinality(InFlight) = 1
        /\ \E c \in InFlight, d \in DOMAIN calls :
               /\ calls[d].pc = "waiting"
               /\ c[1] = b /\ d[1] = b
               /\ c[2] # d[2]

\* What the claims C3 and C4 call the retained records of a company search:
\* its results after the error filter and the deduplication.
Retained(results) == deduplicate_evidence(CleanResults(results))

\* C3: the confidence_score of a company result is the arithmetic mean of
\* the confidences of the records retained after error filtering and
\* deduplication, and 0 when none is retained.
ScoreIsMeanOfRetained ==
    \A t \in Tasks :
        (HasTask(t) /\ TaskOf(t).out # None) =>
            LET kept == Retained(TaskOf(t).results)
                score == TaskOf(t).out.confidence_score
            IN  IF kept = <<>> THEN score = 0
                ELSE score * Len(kept) = SumConfidence(kept)

\* C4: the evidence_sources of a company result is the number of records
\* retained after error filtering and deduplication, which is also
\* findings.signals_found.
EvidenceSourcesCountsRetained ==
    \A t \in Tasks :
        (HasTask(t) /\ TaskOf(t).out # None) =>
            /\ TaskOf(t).out.evidence_sources
                   = Len(Retained(TaskOf(t).results))
            /\ TaskOf(t).out.evidence_sources
                   = TaskOf(t).out.findings.signals_found

\* C5: with every confidence a source reports in [0, 1] (0 .. 100
\* hundredths), the confidence_score of every company result is in [0, 1].
ScoreInUnitInterval ==
    /\ \A t \in Tasks :
           (HasTask(t) /\ TaskOf(t).out # None) =>
               /\ 0 <= TaskOf(t).out.confidence_score
               /\ TaskOf(t).out.confidence_score <= 100
    /\ \A b \in 1 .. Len(batches) :
           \A i \in 1 .. Len(batches[b].out) :
               /\ 0 <= batches[b].out[i].confidence_score
               /\ batches[b].out[i].confidence_score <= 100

\* A company result over two records of confidences 0.8 and 1.0.
ScoreOfTwoRecords ==
    \E t \in Tasks :
        /\ HasTask(t)
        /\ TaskOf(t).out # None
        /\ TaskOf(t).out.evidence_sources = 2
        /\ TaskOf(t).out.confidence_score = 90

(***************************************************************************)
(* Properties of deduplicate_evidence (specification SpecDedup).           *)
(***************************************************************************)

\* The first record of each distinct content string of list, from index i
\* on, in the order of the list; seen are the contents met before i.
RECURSIVE FirstOfEachContent(_, _, _)
FirstOfEachContent(list, i, seen) ==
    IF i > Len(list) THEN <<>>
    ELSE IF list[i].content \in seen
         THEN FirstOfEachContent(list, i + 1, seen)
         ELSE <<list[i]>>
              \o FirstOfEachContent(list, i + 1, seen \cup {list[i].content})

\* C6: for any list of records deduplicate_evidence returns exactly one
\* record per distinct content string, the first one seen, in the order of
\* the list; contents are compared exactly, so records whose contents differ
\* in any character are all kept.  (Stated for the lists whose records all
\* have a content, the only ones search_company hands over.)
DedupKeepsFirstOfEachContent ==
    (deduped.ran /\ \A i \in 1 .. Len(evidence_list) :
                       HasContent(evidence_list[i])) =>
        /\ ~deduped.raised
        /\ deduped.list = FirstOfEachContent(evidence_list, 1, {})

(***************************************************************************)
(* Properties of safe_call and cached_search (specification SpecCall).     *)
(***************************************************************************)

\* The direct safe_call has returned after two invocations of its source,
\* of which the first failed and the second returned a success record.
FailedOnceThenSucceeded ==
    /\ returned # None
    /\ returned.retries >= 1
    /\ returned.ended = "returned"
    /\ returned.invoked = 2
    /\ returned.failures = 1
    /\ ~IsError(returned.result)

\* C7: a safe_call with retries >= 1 whose source fails exactly once and
\* then succeeds returns the success record, and failed_requests has grown
\* by exactly 1 over the call.
RetryThenSuccessCountsOneFailure ==
    FailedOnceThenSucceeded =>
        /\ returned.result \in
               SourceRecords(returned.func, returned.domain, returned.query)
        /\ "content" \in DOMAIN returned.result
        /\ failed_requests = snap.failed_requests + 1

\* Such a call has returned, the counter having been 1 already when it was
\* made.
RetriedCallSucceeded ==
    /\ FailedOnceThenSucceeded
    /\ snap.failed_requests = 1
    /\ failed_requests = 2

\* The direct safe_call gave up, every one of its attempts having invoked
\* the source and seen it raise or time out.
SourceFailedEveryAttempt ==
    /\ returned # None
    /\ returned.ended = "exhausted"
    /\ returned.invoked = returned.failures

\* C8: a safe_call with retries = R whose source raises or times out on
\* every attempt invokes the source exactly R + 1 times, adds exactly R + 1
\* to failed_requests and returns an error record whose reason is that of
\* the last failure ("timeout", or the message of the exception); it does
\* not end in any other way.
ExhaustedAfterAllAttempts ==
    /\ returned # None => returned.ended \in {"hit", "returned", "exhausted"}
    /\ SourceFailedEveryAttempt =>
           /\ returned.invoked = returned.retries + 1
           /\ failed_requests = snap.failed_requests + returned.retries + 1
           /\ returned.reason \in {TIMEOUT_MSG} \cup Messages
           /\ returned.result = ErrorRecord(returned.reason)

\* A safe_call with retries = 2 has returned the timeout record after three
\* invocations of its source.
GaveUpAfterThreeAttempts ==
    /\ SourceFailedEveryAttempt
    /\ returned.retries = 2
    /\ returned.invoked = 3
    /\ returned.result = ErrorRecord(TIMEOUT_MSG)
    /\ failed_requests = snap.failed_requests + 3

\* The direct safe_call that returned last follows one for the same domain
\* and query that returned a success record.
SecondOfTwoCalls ==
    /\ returned # None
    /\ prev # None
    /\ prev.domain = returned.domain
    /\ prev.query = returned.query
    /\ ~IsError(prev.result)

\* C9: of two successive safe_calls with the same domain and query, the
\* first returning a success record, the second returns that same record
\* from the cache without invoking the source, and cache_hits grows by 1.
SecondCallServedFromCache ==
    SecondOfTwoCalls =>
        /\ returned.ended = "hit"
        /\ returned.invoked = 0
        /\ returned.result = prev.result
        /\ cache_hits = snap.cache_hits + 1

\* C10: after any sequence of safe_call and cached_search calls every record
\* in the cache is a success record: error records are never stored.
OnlySuccessRecordsCached ==
    \A key \in Keys : ~IsError(CacheGet(key))

(***************************************************************************)
(* Properties of search_company within a batch (specification Spec).       *)
(***************************************************************************)

\* Every one of the source calls of task t ended in an error record, and
\* there was at least one.
AllCallsFailed(t) ==
    /\ TaskOf(t).results # <<>>
    /\ \A k \in 1 .. Len(TaskOf(t).results) : IsError(TaskOf(t).results[k])

\* C11: when every source call for a domain ends in an error record,
\* search_company still returns a result for the domain, with
\* confidence_score 0, evidence_sources 0 and findings over the empty
\* evidence set (signals_found 0, no evidence).
TotalFailureGivesZeroResult ==
    \A t \in Tasks :
        (HasTask(t) /\ TaskOf(t).out # None /\ AllCallsFailed(t)) =>
            /\ TaskOf(t).out.domain = TaskOf(t).domain
            /\ TaskOf(t).out.confidence_score = 0
            /\ TaskOf(t).out.evidence_sources = 0
            /\ TaskOf(t).out.findings.signals_found = 0
            /\ TaskOf(t).out.findings.evidence = <<>>

\* A company search over two queries has returned, the calls of both having
\* ended in an error record, one of them after a timeout.
CompanySearchFailedTotally ==
    \E t \in Tasks :
        /\ HasTask(t)
        /\ TaskOf(t).out # None
        /\ AllCallsFailed(t)
        /\ Len(TaskOf(t).results) = 2
        /\ TaskOf(t).results[2] = ErrorRecord(TIMEOUT_MSG)
        /\ failed_requests >= DEFAULT_RETRIES + 1

\* The batch of the scenario of C12: domains a.com and b.com, one query, the
\* source giving a.com one record of confidence 0.8 and b.com an error.
OneDomainFails(b) ==
    /\ batches[b].domains = <<"a.com", "b.com">>
    /\ batches[b].queries = <<"x">>
    /\ Len(batches[b].tasks[1].results) = 1
    /\ ~IsError(batches[b].tasks[1].results[1])
    /\ batches[b].tasks[1].results[1].confidence = 80
    /\ Len(batches[b].tasks[2].results) = 1
    /\ IsError(batches[b].tasks[2].results[1])

Abs(n) == IF n < 0 THEN -n ELSE n

\* C20: get_metrics returns failed_requests equal to the failure counter and
\* cache_hit_rate equal to cache_hits / total_requests up to the rounding to
\* two decimals (at most half a hundredth away), 0 when total_requests is 0;
\* taking the snapshot changes no counter.
MetricsAreSnapshot ==
    [][GetMetrics =>
          /\ Counters' = Counters
          /\ metrics'.failed_requests = failed_requests
          /\ IF total_requests = 0 THEN metrics'.cache_hit_rate = 0
             ELSE 2 * Abs(metrics'.cache_hit_rate * total_requests
                          - 100 * cache_hits) <= total_requests]_vars

\* A snapshot of a pipeline with two hits in three requests and two failed
\* attempts: the rate is 0.67.
SnapshotOfTwoThirds ==
    /\ metrics # None
    /\ total_requests = 3
    /\ cache_hits = 2
    /\ failed_requests = 2
    /\ metrics.failed_requests = 2
    /\ metrics.cache_hit_rate = 67

(***************************************************************************)
(* Properties of research_batch and research_stream (specification         *)
(* SpecApi).                                                               *)
(***************************************************************************)

\* The result the sources' outcomes give a domain in the first run of a
\* request, and the one they give it in a re-run with the expansion queries.
FirstResult(r, domain) ==
    CompanyResult(domain,
                  RunResults(domain, r.queries, r.world[domain].first))

RerunResult(r, domain) ==
    CompanyResult(domain,
                  RunResults(domain, QueryTexts(expand_queries(r.expansion)),
                             r.world[domain].rerun))

\* Domain i of request r is weak in the first run, and expand_queries
\* returns at least one query.
ToBeExpanded(r, i) ==
    /\ IsWeak(FirstResult(r, r.request.company_domains[i]),
              r.request.confidence_threshold)
    /\ expand_queries(r.expansion) # <<>>

\* C13: in research_batch and research_stream a domain whose
\* confidence_score is below the threshold, expand_queries returning one or
\* more queries, is researched again with those queries, and its final
\* result is the re-run's result alone.
WeakDomainGetsRerunResult ==
    /\ response # None =>
           \A i \in 1 .. Len(response.request.company_domains) :
               ToBeExpanded(response, i) =>
                   /\ response.reply.status_code = 200
                   /\ response.reply.results[i] =
                          RerunResult(response,
                                      response.request.company_domains[i])
    /\ (stream # None /\ stream.state = "closed") =>
           \A i \in 1 .. Len(stream.request.company_domains) :
               ToBeExpanded(stream, i) =>
                   /\ Len(events) >= i + 1
                   /\ events[i + 1] =
                          ResultEvent(
                              RerunResult(stream,
                                          stream.request.company_domains[i]))

\* C16: a research_batch request with at least one generated query and a
\* valid depth completes with a results list of exactly one result per
\* requested domain, in request order; failures of source calls never make
\* the request fail as a whole.
BatchRequestCompletes ==
    (/\ response # None
     /\ GeneratedQueries(response.parsed) # <<>>
     /\ response.request.search_depth \in DEPTHS) =>
        /\ response.reply.status_code = 200
        /\ Len(response.reply.results)
               = Len(response.request.company_domains)
        /\ \A i \in 1 .. Len(response.request.company_domains) :
               response.reply.results[i].domain
                   = response.request.company_domains[i]

\* The domain an event of the loop is about.
DomainOf(event) ==
    IF event.event = "error" THEN event.domain ELSE event.data.domain

\* Event k of a stream over n domains is the one the sequence start, one
\* event per domain in request order, end has at index k.
EventInPlace(k, domains) ==
    IF k = 1 THEN events[k] = StartEvent
    ELSE IF k = Len(domains) + 2 THEN events[k] = EndEvent
    ELSE /\ events[k].event \in {"message", "error"}
         /\ DomainOf(events[k]) = domains[k - 1]

\* C17: the events of research_stream are one start event, then one event
\* (result or error) per requested domain in the order of company_domains,
\* the loop reaching domain i + 1 only once the event of domain i is out,
\* then one end event, last.
EventsInDomainOrder ==
    stream # None =>
        LET domains == stream.request.company_domains
        IN  /\ Len(events) <= Len(domains) + 2
            /\ \A k \in 1 .. Len(events) : EventInPlace(k, domains)
            /\ stream.state = "open" => Len(events) = stream.pos
            /\ stream.state = "closed" => Len(events) = Len(domains) + 2

\* A stream over a request that names the same domain twice has ended.
StreamOverRepeatedDomain ==
    /\ stream # None
    /\ stream.state = "closed"
    /\ stream.request.company_domains = <<"a.com", "a.com">>
    /\ Len(events) = 4
    /\ DomainOf(events[2]) = "a.com"
    /\ DomainOf(events[3]) = "a.com"
    /\ events[4] = EndEvent

\* C18: when the processing of a domain raises during research_stream, an
\* error event tagged with that domain is emitted, every later domain still
\* gets its own event, and the end event is still emitted.
ErrorDoesNotAbortStream ==
    (stream # None /\ stream.state = "closed") =>
        LET domains == stream.request.company_domains
        IN  \A i \in 1 .. Len(domains) :
                DomainEvent(stream, domains[i]).event = "error" =>
                    /\ Len(events) = Len(domains) + 2
                    /\ events[i + 1].event = "error"
                    /\ events[i + 1].domain = domains[i]
                    /\ \A j \in i + 1 .. Len(domains) :
                           /\ events[j + 1].event \in {"message", "error"}
                           /\ DomainOf(events[j + 1]) = domains[j]
                    /\ events[Len(events)] = EndEvent

\* A stream over a.com and b.com has ended, the processing of a.com having
\* raised: b.com has its event after a.com's error event.
StreamWentOnAfterError ==
    /\ stream # None
    /\ stream.state = "closed"
    /\ stream.request.company_domains = <<"a.com", "b.com">>
    /\ events[2] = ErrorEvent("a.com", TYPE_ERROR)
    /\ DomainOf(events[3]) = "b.com"
    /\ events[4] = EndEvent

\* C19: in research_stream the event of a domain whose source calls all
\* return, with a record or with a degraded error record, is a result event
\* with the domain's result, not an error event.
ReturningDomainGetsResultEvent ==
    stream # None =>
        \A k \in 2 .. Len(events) :
            k <= Len(stream.request.company_domains) + 1 =>
                /\ events[k].event = "message"
                /\ events[k].data.domain
                       = stream.request.company_domains[k - 1]

(***************************************************************************)
(* Properties of the counters over the life of a pipeline (specification   *)
(* SpecLife).                                                              *)
(***************************************************************************)

\* C21: on one pipeline the counters total_requests, failed_requests and
\* cache_hits never decrease and are never reset, whatever batch_search
\* calls (several batches, with their search_company tasks and safe_calls)
\* and get_metrics calls are made and however their steps interleave.
CountersNeverDecrease ==
    [][/\ total_requests' >= total_requests
       /\ failed_requests' >= failed_requests
       /\ cache_hits' >= cache_hits]_vars

\* A second batch_search is running on the pipeline after a get_metrics, all
\* three counters having grown before the snapshot.
SecondBatchAfterSnapshot ==
    /\ Len(batches) = 2
    /\ batches[2].state = "running"
    /\ metrics # None
    /\ metrics.failed_requests >= 1
    /\ metrics.cache_hit_rate > 0
    /\ total_requests >= 3

(***************************************************************************)
(* Properties of search_company called by itself (specification            *)
(* SpecCompany).                                                           *)
(***************************************************************************)

\* What a safe_call hands over of a source it has invoked: a record the
\* source returned, or the error record of its raising or timing out.
FromSource(rec, domain, queries) ==
    \/ \E s \in Sources, k \in 1 .. Len(queries) :
           rec \in SourceRecords(s, domain, queries[k])
    \/ rec = FailureRecord(TIMEOUT_MSG)

\* C22: search_company called on a newly constructed pipeline, no
\* batch_search before it, invokes the sources for each query and makes its
\* result of their records, as it does inside a batch: every failed attempt
\* of its safe_calls is an invocation of the source that failed, and its
\* result is the CompanyResult of one record per query and source, each
\* come from the source.
DirectSearchUsesSources ==
    semaphore = 0 =>
        /\ \A c \in DOMAIN calls : calls[c].failures <= calls[c].invoked
        /\ \A b \in 1 .. Len(batches) :
               batches[b].state = "returned" /\ batches[b].tasks # <<>> =>
                   LET t == batches[b].tasks[1]
                   IN  /\ Len(t.results)
                              = Len(batches[b].queries) * Cardinality(Sources)
                       /\ \A k \in 1 .. Len(t.results) :
                              FromSource(t.results[k], t.domain,
                                         batches[b].queries)
                       /\ batches[b].out = <<CompanyResult(t.domain,
                                                           t.results)>>

(***************************************************************************)
(* Further properties of safe_call (specification SpecCall).               *)
(***************************************************************************)

\* What a safe_call that hits the cache does apart from its counting: it
\* returns the cached record, counts no failure, takes no permit and leaves
\* no coroutine behind that would invoke the source or retry.
HitOnlyReturns(domain, query) ==
    /\ returned' # None
    /\ returned'.ended = "hit"
    /\ returned'.result = CacheGet(hash_key(domain, query))
    /\ returned'.invoked = 0
    /\ failed_requests' = failed_requests
    /\ permits' = permits
    /\ semaphore' = semaphore
    /\ calls' = calls
    /\ CACHE' = CACHE

\* C23, as claimed: a safe_call that hits the cache returns the cached
\* record, adds exactly 1 to cache_hits and changes nothing else:
\* total_requests and failed_requests are unchanged, no permit is taken and
\* the source is not invoked; total_requests grows only on a miss.
HitLeavesTotalRequests ==
    [][\A func \in Sources, domain \in Domains, query \in Queries,
          retries \in 0 .. MaxRetries :
          DirectCall(func, domain, query, retries) =>
              IF CacheHit(domain, query)
              THEN /\ HitOnlyReturns(domain, query)
                   /\ cache_hits' = cache_hits + 1
                   /\ total_requests' = total_requests
              ELSE /\ cache_hits' = cache_hits
                   /\ total_requests' = total_requests + 1]_vars

\* C23, amended: a safe_call that hits the cache returns the cached record,
\* adds exactly 1 to cache_hits and exactly 1 to total_requests and changes
\* nothing else: failed_requests is unchanged, no permit is taken and the
\* source is not invoked; total_requests grows by 1 on every call, hit or
\* miss.
HitCountsAsRequest ==
    [][\A func \in Sources, domain \in Domains, query \in Queries,
          retries \in 0 .. MaxRetries :
          DirectCall(func, domain, query, retries) =>
              /\ total_requests' = total_requests + 1
              /\ IF CacheHit(domain, query)
                 THEN /\ HitOnlyReturns(domain, query)
                      /\ cache_hits' = cache_hits + 1
                 ELSE cache_hits' = cache_hits]_vars

\* A direct safe_call has been served from the cache, which a cached_search
\* had filled: one request and one hit more than before the call.
DirectCallHitCache ==
    /\ returned # None
    /\ returned.ended = "hit"
    /\ ~IsError(returned.result)
    /\ returned.invoked = 0
    /\ cache_hits = snap.cache_hits + 1
    /\ total_requests = snap.total_requests + 1
    /\ failed_requests = snap.failed_requests

\* C24: a source call that fails, by raising or by returning an error
\* record, is a failed attempt: safe_call counts it in failed_requests and
\* retries it, and hands an error record to its caller only after retries
\* + 1 failed attempts.
ErrorRecordOnlyAfterAllAttempts ==
    (returned # None /\ returned.ended # "hit" /\ IsError(returned.result)) =>
        /\ returned.failures = returned.retries + 1
        /\ failed_requests = snap.failed_requests + returned.retries + 1

(***************************************************************************)
(* Properties of the permits of a batch (specification Spec).  The         *)
(* semaphore of batch b is permits[b].                                     *)
(***************************************************************************)

\* The safe_calls that hold a permit of semaphore k if a permit is held
\* exactly during a source invocation.
Invoking(k) == {c \in InFlight : calls[c].sem = k}

\* C25: a permit is held exactly while a source invocation is in progress:
\* the permits taken from the pool of a batch are as many as its safe_calls
\* inside an invocation (a call waiting for a permit or sleeping in backoff
\* holds none), and when batch_search has returned all max_parallel permits
\* are free again, whatever failed on the way.
PermitsHeldWhileInvoking ==
    \A b \in 1 .. Len(batches) :
        batches[b] # Gone =>
            /\ permits[b] + Cardinality(Invoking(b)) = batches[b].max_parallel
            /\ batches[b].state = "returned" =>
                   permits[b] = batches[b].max_parallel

\* A batch with a pool of one permit has returned after two searches, one
\* ending in a record and one in a timeout after three attempts: the permit
\* is free.
PoolFullAfterFailures ==
    /\ Len(batches) = 1
    /\ batches[1].state = "returned"
    /\ batches[1].max_parallel = 1
    /\ Len(batches[1].tasks) = 2
    /\ batches[1].queries = <<"x">>
    /\ ~IsError(batches[1].tasks[1].results[1])
    /\ batches[1].tasks[2].results[1] = ErrorRecord(TIMEOUT_MSG)
    /\ failed_requests = DEFAULT_RETRIES + 1
    /\ permits[1] = 1

(***************************************************************************)
(* Termination of batch_search (specification SpecLive).                   *)
(***************************************************************************)

\* The safe_calls a batch can make.
CallIds ==
    {<<b, i, src>> : b \in 1 .. MaxBatches, i \in 1 .. MaxDomains,
                     src \in Sources}

WaitsForPermit(c) == c \in DOMAIN calls /\ calls[c].pc = "waiting"

BatchIs(b, state) == b <= Len(batches) /\ batches[b].state = state

\* C26: for every max_parallel >= 1 and every list of domains and queries,
\* every source invocation ending by itself or by the timeout, batch_search
\* eventually returns, and every safe_call that waits for a permit
\* eventually gets one.
BatchSearchReturns ==
    /\ \A b \in 1 .. MaxBatches : BatchIs(b, "running") ~> BatchIs(b, "returned")
    /\ \A c \in CallIds : WaitsForPermit(c) ~> ~WaitsForPermit(c)

\* A batch over two domains with one permit has returned: the call of a.com
\* had to wait until the call of b.com, which failed twice and slept in
\* between, had given the permit back for good.
WaiterServedLast ==
    /\ Len(batches) = 1
    /\ batches[1].state = "returned"
    /\ batches[1].max_parallel = 1
    /\ batches[1].domains = <<"a.com", "b.com">>
    /\ batches[1].queries = <<"x">>
    /\ batches[1].finished = <<2, 1>>
    /\ failed_requests = 2
    /\ ~IsError(batches[1].tasks[2].results[1])
    /\ total_requests = 2

(***************************************************************************)
(* Properties of concurrent safe_calls of one batch (specification Spec).  *)
(***************************************************************************)

\* The safe_calls that begin, and those that return, in a step.
Begun == (DOMAIN calls') \ (DOMAIN calls)

Ended == (DOMAIN calls) \ (DOMAIN calls')

\* C27: concurrent safe_calls for the same uncached domain and query do not
\* collapse into one: every call that misses the cache is a request and a
\* coroutine of its own, and a call returns only out of a source invocation
\* of its own, one call per step, whatever another call for the same key
\* does or returns in the meantime.
NoSingleFlight ==
    [][/\ (total_requests' - total_requests) - (cache_hits' - cache_hits)
              = Cardinality(Begun)
       /\ Cardinality(Ended) <= 1
       /\ \A c \in Ended :
              /\ calls[c].pc = "inflight"
              /\ calls[c].invoked >= 1]_vars

\* A batch that names a.com twice, its key not cached: the two safe_calls
\* for the key are both inside an invocation of the source, and two
\* requests are counted.
SameKeyInvokedTwice ==
    /\ Len(batches) = 1
    /\ batches[1].domains = <<"a.com", "a.com">>
    /\ ~CacheHit("a.com", "x")
    /\ DOMAIN calls = {<<1, 1, 1>>, <<1, 2, 1>>}
    /\ \A c \in DOMAIN calls : calls[c].pc = "inflight" /\ calls[c].invoked = 1
    /\ total_requests = 2
    /\ cache_hits = 0

(***************************************************************************)
(* Properties of the safe_calls of search_company (specification Spec).    *)
(***************************************************************************)

\* The safe_calls in progress of task t.
CallsOf(t) == {c \in DOMAIN calls : c[1] = t[1] /\ c[2] = t[2]}

\* The safe_calls task t has issued so far: those of the queries up to the
\* one it is at.
Issued(t) ==
    IF batches[t[1]].queries = <<>> THEN 0
    ELSE TaskOf(t).qi * Cardinality(Sources)

Doubling(sleeps, n) ==
    /\ Len(sleeps) = n
    /\ n >= 1 => sleeps[1] = 200
    /\ \A k \in 2 .. n : sleeps[k] = 2 * sleeps[k - 1]

\* C29: after failed attempt k that is not the last, safe_call sleeps
\* 0.2 * 2^k seconds before attempt k + 1, so the delays double; it does not
\* sleep before the first attempt, nor after the last failed attempt, whose
\* error record it returns at once.
BackoffDoubles ==
    /\ \A c \in DOMAIN calls :
           /\ calls[c].failures =
                  calls[c].attempt + (IF calls[c].pc = "backoff" THEN 1 ELSE 0)
           /\ calls[c].failures <= calls[c].retries
           /\ Doubling(calls[c].sleeps, calls[c].failures)
    /\ (returned # None /\ returned.ended = "exhausted") =>
           /\ returned.failures = returned.retries + 1
           /\ Doubling(returned.sleeps, returned.retries)
    /\ (returned # None /\ returned.ended = "returned") =>
           Doubling(returned.sleeps, returned.failures)
    /\ (returned # None /\ returned.ended = "hit") =>
           returned.sleeps = <<>>

\* A safe_call with retries = 2 has given up after three invocations of its
\* source: it slept 0.2 s and 0.4 s, and not after the third failure.
GaveUpAfterTwoSleeps ==
    /\ returned # None
    /\ returned.ended = "exhausted"
    /\ returned.retries = 2
    /\ returned.invoked = 3
    /\ returned.sleeps = <<200, 400>>

(***************************************************************************)
(* Further properties of research_batch and research_stream                *)
(* (specification SpecApi).                                                *)
(***************************************************************************)

\* Domain i of request r is not weak in the first run: its confidence_score
\* is the threshold or more.
NotToBeExpanded(r, i) ==
    ~IsWeak(FirstResult(r, r.request.company_domains[i]),
            r.request.confidence_threshold)

\* C30: a domain whose confidence_score is greater than or equal to the
\* threshold is never expanded: no second run is made for it, and the
\* result of its first run is delivered unchanged, in the response of
\* research_batch and in its event of research_stream.
StrongDomainDeliveredUnchanged ==
    /\ response # None =>
           \A i \in 1 .. Len(response.request.company_domains) :
               NotToBeExpanded(response, i) =>
                   /\ response.reply.status_code = 200
                   /\ response.reply.results[i] =
                          FirstResult(response,
                                      response.request.company_domains[i])
    /\ (stream # None /\ stream.state = "closed") =>
           \A i \in 1 .. Len(stream.request.company_domains) :
               NotToBeExpanded(stream, i) =>
                   /\ Len(events) >= i + 1
                   /\ events[i + 1] =
                          ResultEvent(
                              FirstResult(stream,
                                          stream.request.company_domains[i]))

(***************************************************************************)
(* Properties of overlapping batches (specification SpecOverlap).          *)
(***************************************************************************)

\* The source invocations in flight that belong to batch b.
InFlightOf(b) == {c \in InFlight : c[1] = b}

\* C31: when two batch_search calls overlap on one pipeline, the source
\* invocations of each batch are admitted by that batch's own pool: at every
\* moment the invocations in flight that belong to a batch are at most the
\* batch's max_parallel.
EachBatchWithinOwnPool ==
    \A b \in 1 .. Len(batches) :
        batches[b].state = "running" =>
            Cardinality(InFlightOf(b)) <= batches[b].max_parallel

(***************************************************************************)
(* Properties of the pool size the endpoints ask for (specification        *)
(* SpecApi).                                                               *)
(***************************************************************************)

\* C32: whatever max_parallel_searches and search_depth a request has, the
\* max_parallel that research_batch and research_stream pass to batch_search
\* is at least 1, so the pool always has a permit to give.
PoolHasAPermit ==
    /\ response # None => response.max_parallel >= 1
    /\ stream # None => stream.max_parallel >= 1

(***************************************************************************)
(* Properties of the cache key (specification SpecCall).                   *)
(***************************************************************************)

\* C33: a record that safe_call returns from the cache to a call for a source
\* was produced by that source: its source field names the source called.
CachedRecordIsOfSourceCalled ==
    (/\ returned # None
     /\ returned.ended = "hit"
     /\ ~IsError(returned.result))
        => returned.result.source = SOURCES[returned.func]

(***************************************************************************)
(* Properties of the counters over the life of a pipeline (specification   *)
(* SpecLife).                                                              *)
(***************************************************************************)

\* C34: in every state cache_hits is at most total_requests, and so the
\* cache_hit_rate of a get_metrics snapshot lies between 0 and 1 (0 and 100
\* hundredths).
HitsWithinRequests ==
    /\ cache_hits <= total_requests
    /\ metrics # None => metrics.cache_hit_rate \in 0 .. 100

\* A snapshot taken after some calls hit the cache and others missed it.
SnapshotOfHitsAndMisses ==
    /\ metrics # None
    /\ cache_hits > 0
    /\ cache_hits < total_requests
    /\ metrics.cache_hit_rate \in 1 .. 99

(***************************************************************************)
(* Properties of the queries of a request (specification SpecQueries).     *)
(***************************************************************************)

\* The positions, in the list the generator returned, of the strategies
\* whose query text is among the queries.
UsedStrategies(strategies, queries) ==
    {k \in 1 .. Len(strategies) :
        \E j \in 1 .. Len(queries) : queries[j] = strategies[k].query_text}

RelevanceOf(strategies, text) ==
    LET k == CHOOSE k \in 1 .. Len(strategies) :
                 strategies[k].query_text = text
    IN  strategies[k].relevance_score

\* The queries r holds are the texts of the most relevant strategies, most
\* relevant first, as many as the depth allows.
TopQueries(r) ==
    LET strategies == generate_queries(r.parsed)
        depth == r.request.search_depth
        used == UsedStrategies(strategies, r.queries)
    IN  /\ depth = "quick" =>
               Len(r.queries) = Min(QUICK_QUERIES, Len(strategies))
        /\ depth = "standard" =>
               Len(r.queries) = Min(STANDARD_QUERIES, Len(strategies))
        /\ depth = "comprehensive" => Len(r.queries) = Len(strategies)
        /\ Cardinality(used) = Len(r.queries)
        /\ \A i, j \in 1 .. Len(r.queries) :
               i < j => RelevanceOf(strategies, r.queries[i])
                            >= RelevanceOf(strategies, r.queries[j])
        /\ \A k \in used, l \in (1 .. Len(strategies)) \ used :
               strategies[l].relevance_score <= strategies[k].relevance_score

\* C36: the queries research_batch and research_stream hand to batch_search
\* are a prefix of the generated strategies sorted by descending
\* relevance_score: the first 5 for depth quick, the first 10 for standard,
\* all of them for comprehensive; no query of a lower relevance is used
\* while one of a strictly higher relevance is left out.
QueriesAreMostRelevantPrefix ==
    /\ response # None => TopQueries(response)
    /\ stream # None => TopQueries(stream)

\* A standard request whose generator gave 11 strategies, the last of them
\* more relevant than the first: one strategy is left out.
StandardRequestLeavesOneOut ==
    /\ response # None
    /\ response.request.search_depth = "standard"
    /\ Len(response.parsed) = 11
    /\ response.parsed[1].relevance_score = 50
    /\ response.parsed[11].relevance_score = 90
    /\ Len(response.queries) = STANDARD_QUERIES

(***************************************************************************)
(* Algebraic properties of deduplicate_evidence (specification SpecDedup). *)
(***************************************************************************)

\* sub is list with some of its elements taken out.
RECURSIVE IsSubsequence(_, _)
IsSubsequence(sub, list) ==
    IF sub = <<>> THEN TRUE
    ELSE IF list = <<>> THEN FALSE
    ELSE IF Head(sub) = Head(list)
         THEN IsSubsequence(Tail(sub), Tail(list))
         ELSE IsSubsequence(sub, Tail(list))

\* C37: deduplicate_evidence is idempotent and only removes records: applied
\* to its own output it returns that output unchanged, and its output is a
\* subsequence of its input (no record altered, added or reordered).
DedupIsIdempotentAndOnlyRemoves ==
    (deduped.ran /\ ~deduped.raised) =>
        /\ ~DedupRaises(deduped.list)
        /\ deduplicate_evidence(deduped.list) = deduped.list
        /\ IsSubsequence(deduped.list, evidence_list)

\* Of three records the second was removed and two were kept.
DedupRemovedTheSecondOfThree ==
    /\ deduped.ran
    /\ ~deduped.raised
    /\ Len(evidence_list) = 3
    /\ deduped.list = << evidence_list[1], evidence_list[3] >>
    /\ evidence_list[1] # evidence_list[2]

(***************************************************************************)
(* Properties of stream_evidence (specification SpecEvidence).             *)
(***************************************************************************)

\* The (pair, source) combinations of a generator, and the items it has
\* yielded for one of them.
Combinations(gen) ==
    (1 .. Len(gen.pairs)) \X (1 .. Len(STREAM_SOURCES))

ItemsOf(gen, co) ==
    {k \in 1 .. Len(gen.yielded) :
        gen.yielded[k].pair = co[1] /\ gen.yielded[k].source = co[2]}

\* Every combination is either still being called or has yielded exactly one
\* item, an error record if its call failed on every attempt; once the
\* generator has ended there are |domains| * |queries| * 4 items.
OneItemEach(b) ==
    LET gen == batches[b]
    IN  /\ \A co \in Combinations(gen) :
               IF <<b, co[1], co[2]>> \in DOMAIN calls
               THEN ItemsOf(gen, co) = {}
               ELSE Cardinality(ItemsOf(gen, co)) = 1
        /\ \A k \in 1 .. Len(gen.yielded) :
               gen.yielded[k].ended = "exhausted" =>
                   IsError(gen.yielded[k].item)
        /\ gen.state = "closed" =>
               Len(gen.yielded) =
                   Len(gen.domains) * Len(gen.queries) * Len(STREAM_SOURCES)

\* A step in which safe_call c of generator b returns some record: the
\* record becomes the last item, behind all the items yielded before.
YieldsOnCompletion(b) ==
    \A c \in DOMAIN calls :
        (c[1] = b /\ c \notin DOMAIN calls') =>
            /\ Len(batches'[b].yielded) = Len(batches[b].yielded) + 1
            /\ SubSeq(batches'[b].yielded, 1, Len(batches[b].yielded))
                   = batches[b].yielded
            /\ LET last == batches'[b].yielded[Len(batches'[b].yielded)]
               IN  last.pair = c[2] /\ last.source = c[3]

\* C38: stream_evidence(domains, queries) yields exactly one item for each
\* (domain, query, source) combination over its four sources,
\* |domains| * |queries| * 4 items in all, in the order in which the calls
\* complete; a call that fails on every attempt still yields exactly one
\* error item and does not stop the remaining items from being yielded.
StreamEvidenceYieldsOneItemPerCall ==
    /\ [](\A b \in 1 .. Len(batches) :
             IsEvidenceStream(batches[b]) => OneItemEach(b))
    /\ [][\A b \in 1 .. Len(batches) :
             IsEvidenceStream(batches[b]) => YieldsOnCompletion(b)]_vars

\* A generator that has ended after four items, the first of them the error
\* item of a call that failed on every attempt, the last a success record.
StreamEvidenceWentOnAfterError ==
    /\ batches # <<>>
    /\ IsEvidenceStream(batches[1])
    /\ batches[1].state = "closed"
    /\ Len(batches[1].yielded) = 4
    /\ batches[1].yielded[1].ended = "exhausted"
    /\ batches[1].yielded[1].item = ErrorRecord("boom")
    /\ batches[1].yielded[4].ended = "returned"
    /\ ~IsError(batches[1].yielded[4].item)

========================================================================
